---------------------------- MODULE Spec2Model ----------------------------
(***************************************************************************)
(* A model of libsrtp's cipher meta-functions (crypto/cipher/cipher.c):    *)
(* the dispatch layer that forwards to a concrete cipher through its       *)
(* srtp_cipher_type_t, the self-test srtp_cipher_type_test (known-answer   *)
(* pass, then randomized round trips) and srtp_cipher_bits_per_second.     *)
(*                                                                         *)
(* The concrete cipher behind the function pointers is the environment:    *)
(* every call of a contract method draws its outcome from a small set      *)
(* (a faithful toy cipher, a corrupting one, a failing one).               *)
(***************************************************************************)
EXTENDS Integers, Sequences, FiniteSets, TLC

VARIABLES
    (* shared *)
    pc,            \* position of the running function / driver
    ct,            \* const srtp_cipher_type_t *ct
    c,             \* srtp_cipher_t *c
    status,        \* srtp_err_status_t status (last status obtained)
    calls,         \* history: dispatch calls made for the current case
    (* dispatch-layer driver *)
    op,            \* history: the dispatch operation called last
    fwd,           \* history: contract methods that call invoked
    alloc_key_len, \* history: key length given to the allocation of c
    alloc_tag_len, \* history: tag length given to the allocation of c
    key_length,    \* last result of srtp_cipher_get_key_length
    dbuf,          \* caller's buffer of the last encrypt/decrypt/output
    dlen,          \* caller's length word of that call
    (* srtp_cipher_type_test *)
    test_data,     \* the test-vector list (a sequence; <<>> is NULL)
    test_case,     \* index into test_data (0: NULL)
    buffer,        \* uint8_t buffer[SELF_TEST_BUF_OCTETS] and what follows it
    buffer2,       \* uint8_t buffer2[SELF_TEST_BUF_OCTETS]
    len,           \* size_t len / encrypted_len / decrypted_len
    tag_len,       \* size_t tag_len
    j,             \* randomized trial counter
    plaintext_len, \* size_t plaintext_len
    key,           \* uint8_t key[MAX_KEY_LEN] (the key drawn in a trial)
    iv,            \* uint8_t iv[MAX_KEY_LEN] (the IV drawn in a trial)
    ret,           \* value returned by srtp_cipher_type_test
    nAlloc,        \* history: instances allocated so far
    deallocs,      \* history: instance id -> times passed to srtp_cipher_dealloc
    oob,           \* history: indices at or beyond a buffer's capacity written
    bufWrites,     \* history: octets written into buffer for the current vector
    encOut,        \* history: vector -> encrypt output (with tag) compared
    decOut,        \* history: vector -> decrypt output compared
    (* srtp_cipher_bits_per_second *)
    octets_in_buffer,
    num_trials,
    i,             \* trial counter
    nonce,         \* v128_t nonce, as its four 32-bit words
    b_len,         \* size_t len
    b_tag_len,     \* size_t tag_len
    enc_buf,       \* "none" | "live" | "freed": the scratch allocation
    nFree,         \* history: times srtp_crypto_free(enc_buf) was called
    timer,         \* clock_t timer (elapsed ticks once measured)
    failed,        \* history: which step made the benchmark give up
    result         \* value returned by srtp_cipher_bits_per_second

sharedVars == <<pc, ct, c, status, calls>>
dispVars == <<op, fwd, alloc_key_len, alloc_tag_len, key_length, dbuf, dlen>>
testVars == <<test_data, test_case, buffer, buffer2, len, tag_len, j, plaintext_len, key, iv, ret, nAlloc, deallocs, oob, bufWrites, encOut, decOut>>
benchVars == <<octets_in_buffer, num_trials, i, nonce, b_len, b_tag_len, enc_buf, nFree, timer, failed, result>>
vars == <<sharedVars, dispVars, testVars, benchVars>>

---------------------------------------------------------------------------
(* Program constants *)

SELF_TEST_BUF_OCTETS == 128
NUM_RAND_TESTS == 128
MAX_KEY_LEN == 64
SRTP_MAX_TAG_LEN == 16
CLOCKS_PER_SEC == 1000000

(* Bounds of the model *)

\* longest test-vector list drawn
MaxVectors == 2
\* octets past the end of buffer[] whose contents the model still tracks
Overrun == 24
\* largest trial count given to the benchmark
MaxTrials == 2

---------------------------------------------------------------------------
(* Values *)

\* a null pointer; every pointed-to record carries null |-> FALSE
NULL == [null |-> TRUE]
IsNull(p) == p.null

\* an uninitialized word (never a valid length, octet or status)
Uninit == -1

Byte == 0..255

Min(a, b) == IF a < b THEN a ELSE b

RECURSIVE Sum(_)
Sum(s) == IF s = <<>> THEN 0 ELSE (Head(s) + Sum(Tail(s))) % 256

\* the octets mem[off .. off+n-1] as a sequence
Slice(mem, off, n) == [k \in 1..n |-> mem[off + k - 1]]

\* mem with the sequence s stored at off (inside what the model tracks)
Store(mem, off, s) == [k \in DOMAIN mem |-> IF k >= off /\ k < off + Len(s) THEN s[k - off + 1] ELSE mem[k]]

\* the indices at or beyond capacity cap that storing n octets at off touches
Beyond(cap, off, n) == {k \in off..(off + n - 1) : k >= cap}


---------------------------------------------------------------------------
(* The concrete cipher: the collaborator behind srtp_cipher_type_t's       *)
(* function pointers.  A toy additive stream cipher with an optional tag;  *)
(* each call's outcome r is drawn by the caller of these operators.        *)

IsGCM(alg) == alg \in {"SRTP_AES_GCM_128", "SRTP_AES_GCM_256"}

\* outcomes of a method that moves no data, and of one that does
Outcomes == {"ok", "fail"}
DataOutcomes == {"ok", "corrupt", "short", "fail"}

\* the status a failing method reports
FailStatus(m) == CASE m = "alloc" -> "alloc_fail" [] m = "dealloc" -> "dealloc_fail" [] m = "init" -> "init_fail" [] m = "set_iv" -> "terminus" [] m = "set_aad" -> "fail" [] m = "encrypt" -> "cipher_fail" [] m = "decrypt" -> "cipher_fail" [] OTHER -> "auth_fail"

MethodStatus(m, r) == IF r = "fail" THEN FailStatus(m) ELSE "ok"

Ks(k, v, n) == (7 * k + 3 * v + n + 1024) % 256

FreshState(ctp, tlen) == [null |-> FALSE, key |-> Uninit, iv |-> Uninit, dir |-> "none", aad |-> 0, acc |-> 0, tlen |-> tlen, aead |-> IsGCM(ctp.id)]

Concrete_alloc(ctp, key_len, tlen, id) == [null |-> FALSE, id |-> id, type |-> ctp, state |-> FreshState(ctp, tlen), algorithm |-> ctp.id, key_len |-> key_len, tag_len |-> tlen]

Concrete_init(st, k) == [st EXCEPT !.key = k, !.iv = Uninit, !.dir = "none", !.aad = 0, !.acc = 0]

Concrete_set_iv(st, v, dir) == [st EXCEPT !.iv = v, !.dir = dir, !.aad = 0, !.acc = 0]

Concrete_set_aad(st, aad) == [st EXCEPT !.aad = aad]

EncBytes(st, src) == [n \in 1..Len(src) |-> (src[n] + Ks(st.key, st.iv, n)) % 256]

DecBytes(st, src) == [n \in 1..Len(src) |-> (src[n] + 256 - Ks(st.key, st.iv, n)) % 256]

TagBytes(st, acc) == [n \in 1..st.tlen |-> (st.key + st.iv + st.aad + acc + n + 1024) % 256]

\* what a corrupting or truncating implementation makes of a right output
Faulty(out, r) == IF out = <<>> \/ r = "ok" THEN out ELSE IF r = "short" THEN SubSeq(out, 1, Len(out) - 1) ELSE [out EXCEPT ![1] = (@ + 1) % 256]

\* [status, out, state]: the octets written to dst and the state afterwards
Concrete_encrypt(st, src, cap, r) == IF r = "fail" THEN [status |-> "cipher_fail", out |-> <<>>, state |-> st] ELSE IF cap < Len(src) THEN [status |-> "buffer_small", out |-> <<>>, state |-> st] ELSE LET good == EncBytes(st, src) IN [status |-> "ok", out |-> Faulty(good, r), state |-> [st EXCEPT !.acc = Sum(good)]]

Concrete_decrypt(st, src, cap, r) == IF r = "fail" THEN [status |-> "cipher_fail", out |-> <<>>, state |-> st] ELSE IF st.aead /\ Len(src) < st.tlen THEN [status |-> "bad_param", out |-> <<>>, state |-> st] ELSE LET n == IF st.aead THEN Len(src) - st.tlen ELSE Len(src) body == SubSeq(src, 1, n) tag == SubSeq(src, n + 1, Len(src)) IN IF cap < n THEN [status |-> "buffer_small", out |-> <<>>, state |-> st] ELSE IF st.aead /\ tag # TagBytes(st, Sum(body)) THEN [status |-> "auth_fail", out |-> <<>>, state |-> st] ELSE [status |-> "ok", out |-> Faulty(DecBytes(st, body), r), state |-> st]

Concrete_get_tag(st, r) == IF r = "fail" THEN [status |-> "auth_fail", out |-> <<>>] ELSE [status |-> "ok", out |-> Faulty(TagBytes(st, st.acc), r)]

---------------------------------------------------------------------------
(* The dispatch layer.  Each operator gives [status, fwd, c, out, len]:    *)
(* the status returned, the contract methods invoked, the instance after   *)
(* the call, the octets written through the destination pointer and the    *)
(* value left in the caller's length word (n0 when it is not written).     *)

Res(s, f, cc, out, n) == [status |-> s, fwd |-> f, c |-> cc, out |-> out, len |-> n]

Invalid(cc) == IsNull(cc) \/ IsNull(cc.type) \/ IsNull(cc.state)

srtp_cipher_type_alloc(ctp, cc, key_len, tlen, id, r) == IF IsNull(ctp) \/ ~ctp.alloc THEN Res("bad_param", <<>>, cc, <<>>, 0) ELSE Res(MethodStatus("alloc", r), <<"alloc">>, IF r = "ok" THEN Concrete_alloc(ctp, key_len, tlen, id) ELSE cc, <<>>, 0)

srtp_cipher_dealloc(cc, r) == IF IsNull(cc) \/ IsNull(cc.type) THEN Res("bad_param", <<>>, cc, <<>>, 0) ELSE Res(MethodStatus("dealloc", r), <<"dealloc">>, cc, <<>>, 0)

\* mutant: re-initialization also resets the instance's key length
srtp_cipher_init_resets_len(cc, k, r) == IF Invalid(cc) THEN Res("bad_param", <<>>, cc, <<>>, 0) ELSE Res(MethodStatus("init", r), <<"init">>, IF r = "ok" THEN [cc EXCEPT !.state = Concrete_init(@, k), !.key_len = 0] ELSE cc, <<>>, 0)

srtp_cipher_init(cc, k, r) == IF Invalid(cc) THEN Res("bad_param", <<>>, cc, <<>>, 0) ELSE Res(MethodStatus("init", r), <<"init">>, IF r = "ok" THEN [cc EXCEPT !.state = Concrete_init(@, k)] ELSE cc, <<>>, 0)

srtp_cipher_set_iv(cc, v, dir, r) == IF Invalid(cc) THEN Res("bad_param", <<>>, cc, <<>>, 0) ELSE Res(MethodStatus("set_iv", r), <<"set_iv">>, IF r = "ok" THEN [cc EXCEPT !.state = Concrete_set_iv(@, v, dir)] ELSE cc, <<>>, 0)

srtp_cipher_encrypt(cc, src, n0, r) == IF Invalid(cc) THEN Res("bad_param", <<>>, cc, <<>>, n0) ELSE LET e == Concrete_encrypt(cc.state, src, n0, r) IN Res(e.status, <<"encrypt">>, [cc EXCEPT !.state = e.state], e.out, IF e.status = "ok" THEN Len(e.out) ELSE n0)

srtp_cipher_decrypt(cc, src, n0, r) == IF Invalid(cc) THEN Res("bad_param", <<>>, cc, <<>>, n0) ELSE LET e == Concrete_decrypt(cc.state, src, n0, r) IN Res(e.status, <<"decrypt">>, [cc EXCEPT !.state = e.state], e.out, IF e.status = "ok" THEN Len(e.out) ELSE n0)

\* mutant: a missing get_tag is reported like a missing instance
srtp_cipher_get_tag_bad_param(cc, n0, r) == IF Invalid(cc) \/ ~cc.type.get_tag THEN Res("bad_param", <<>>, cc, <<>>, n0) ELSE LET e == Concrete_get_tag(cc.state, r) IN Res(e.status, <<"get_tag">>, cc, e.out, IF e.status = "ok" THEN Len(e.out) ELSE n0)

srtp_cipher_get_tag(cc, n0, r) == IF Invalid(cc) THEN Res("bad_param", <<>>, cc, <<>>, n0) ELSE IF ~cc.type.get_tag THEN Res("no_such_op", <<>>, cc, <<>>, n0) ELSE LET e == Concrete_get_tag(cc.state, r) IN Res(e.status, <<"get_tag">>, cc, e.out, IF e.status = "ok" THEN Len(e.out) ELSE n0)

srtp_cipher_set_aad(cc, aad, r) == IF Invalid(cc) THEN Res("bad_param", <<>>, cc, <<>>, 0) ELSE IF ~cc.type.set_aad THEN Res("no_such_op", <<>>, cc, <<>>, 0) ELSE Res(MethodStatus("set_aad", r), <<"set_aad">>, IF r = "ok" THEN [cc EXCEPT !.state = Concrete_set_aad(@, aad)] ELSE cc, <<>>, 0)

\* mutant: the buffer is encrypted as the caller left it (octets of 1)
srtp_cipher_output_not_zeroed(cc, n0, r) == LET ones == [n \in 1..n0 |-> 1] e == Concrete_encrypt(cc.state, ones, n0, r) IN Res(e.status, <<"encrypt">>, [cc EXCEPT !.state = e.state], IF e.status = "ok" THEN e.out ELSE ones, IF e.status = "ok" THEN Len(e.out) ELSE n0)

\* srtp_cipher_output on an instance whose type can be read: the buffer is
\* zeroed, then encrypted in place; c and c->state are not examined
srtp_cipher_output(cc, n0, r) == LET zeros == [n \in 1..n0 |-> 0] e == Concrete_encrypt(cc.state, zeros, n0, r) IN Res(e.status, <<"encrypt">>, [cc EXCEPT !.state = e.state], IF e.status = "ok" THEN e.out ELSE zeros, IF e.status = "ok" THEN Len(e.out) ELSE n0)

srtp_cipher_get_key_length(cc) == cc.key_len

---------------------------------------------------------------------------
(* Inputs *)

Algorithms == {"SRTP_AES_ICM_128", "SRTP_AES_GCM_128"}

\* a cipher type: its identity and which function pointers it sets
\* (dealloc, init, set_iv, encrypt and decrypt are always set)
CipherType(a, al, sa, gt) == [null |-> FALSE, id |-> a, alloc |-> al, set_aad |-> sa, get_tag |-> gt]

\* the types drawn: a stream cipher, an AEAD cipher, an AEAD identity with
\* one or both AEAD methods missing, and a type with no allocator
CipherTypes == {CipherType("SRTP_AES_ICM_128", TRUE, FALSE, FALSE), CipherType("SRTP_AES_GCM_128", TRUE, TRUE, TRUE), CipherType("SRTP_AES_GCM_128", TRUE, FALSE, TRUE), CipherType("SRTP_AES_GCM_128", TRUE, TRUE, FALSE), CipherType("SRTP_AES_ICM_128", FALSE, FALSE, FALSE)}

Keys == {5, 9}
IVs == {1}
AADs == {3}
KeyLens == {16, 30}
TagLens == {8}
Sources == {<<>>, <<10, 20>>}
Directions == {"srtp_direction_encrypt", "srtp_direction_decrypt"}

\* instances a caller can hand to the dispatch layer without having
\* obtained them from srtp_cipher_type_alloc: no instance, no type, no state
Broken(ctp) == {NULL} \cup {[Concrete_alloc(t, 16, 0, 0) EXCEPT !.type = NULL] : t \in {CipherType("SRTP_AES_ICM_128", TRUE, FALSE, FALSE)}} \cup (IF IsNull(ctp) THEN {} ELSE {[Concrete_alloc(ctp, 16, 0, 0) EXCEPT !.state = NULL]})

\* what a build can make of a dereference of a null pointer, when it returns
UBStatuses == {"ok", "bad_param", "cipher_fail"}

TestIdle == /\ test_data = <<>> /\ test_case = 0 /\ buffer = <<>> /\ buffer2 = <<>> /\ len = Uninit /\ tag_len = Uninit /\ j = 0 /\ plaintext_len = Uninit /\ key = Uninit /\ iv = Uninit /\ ret = "none" /\ nAlloc = 0 /\ deallocs = <<>> /\ oob = {} /\ bufWrites = 0 /\ encOut = <<>> /\ decOut = <<>>

BenchIdle == /\ octets_in_buffer = 0 /\ num_trials = 0 /\ i = 0 /\ nonce = <<0, 0, 0, 0>> /\ b_len = 0 /\ b_tag_len = 0 /\ enc_buf = "none" /\ nFree = 0 /\ timer = 0 /\ failed = "none" /\ result = Uninit

DispIdle == /\ op = "none" /\ fwd = <<>> /\ alloc_key_len = Uninit /\ alloc_tag_len = Uninit /\ key_length = Uninit /\ dbuf = <<>> /\ dlen = 0

---------------------------------------------------------------------------
(* A caller driving the dispatch layer on one instance *)

InitDispatch == /\ pc = "ready" /\ ct \in CipherTypes \cup {NULL} /\ c \in Broken(ct) /\ status = "none" /\ calls = <<>> /\ op = "none" /\ fwd = <<>> /\ alloc_key_len = (IF IsNull(c) THEN Uninit ELSE c.key_len) /\ alloc_tag_len = (IF IsNull(c) THEN Uninit ELSE c.tag_len) /\ key_length = Uninit /\ dbuf = <<>> /\ dlen = 0 /\ TestIdle /\ BenchIdle

\* the caller records the result of a dispatch call
Returned(name, res) == /\ op' = name /\ status' = res.status /\ fwd' = res.fwd /\ c' = res.c

D_Alloc == /\ pc = "ready" /\ IsNull(c) /\ \E kl \in KeyLens, tl \in TagLens, r \in Outcomes : LET res == srtp_cipher_type_alloc(ct, c, kl, tl, 1, r) IN /\ Returned("alloc", res) /\ alloc_key_len' = (IF res.status = "ok" THEN kl ELSE alloc_key_len) /\ alloc_tag_len' = (IF res.status = "ok" THEN tl ELSE alloc_tag_len) /\ dbuf' = <<>> /\ dlen' = 0 /\ UNCHANGED <<pc, ct, calls, key_length, testVars, benchVars>>

\* after a successful deallocation the caller drops its pointer
D_Dealloc == /\ pc = "ready" /\ \E r \in Outcomes : LET res == srtp_cipher_dealloc(c, r) IN /\ op' = "dealloc" /\ status' = res.status /\ fwd' = res.fwd /\ c' = (IF res.status = "ok" THEN NULL ELSE c) /\ dbuf' = <<>> /\ dlen' = 0 /\ UNCHANGED <<pc, ct, calls, alloc_key_len, alloc_tag_len, key_length, testVars, benchVars>>

D_Init == /\ pc = "ready" /\ \E k \in Keys, r \in Outcomes : /\ Returned("init", srtp_cipher_init(c, k, r)) /\ dbuf' = <<>> /\ dlen' = 0 /\ UNCHANGED <<pc, ct, calls, alloc_key_len, alloc_tag_len, key_length, testVars, benchVars>>

D_SetIv == /\ pc = "ready" /\ \E v \in IVs, d \in Directions, r \in Outcomes : /\ Returned("set_iv", srtp_cipher_set_iv(c, v, d, r)) /\ dbuf' = <<>> /\ dlen' = 0 /\ UNCHANGED <<pc, ct, calls, alloc_key_len, alloc_tag_len, key_length, testVars, benchVars>>

D_SetAad == /\ pc = "ready" /\ \E a \in AADs, r \in Outcomes : /\ Returned("set_aad", srtp_cipher_set_aad(c, a, r)) /\ dbuf' = <<>> /\ dlen' = 0 /\ UNCHANGED <<pc, ct, calls, alloc_key_len, alloc_tag_len, key_length, testVars, benchVars>>

D_Encrypt == /\ pc = "ready" /\ \E src \in Sources, r \in DataOutcomes : LET res == srtp_cipher_encrypt(c, src, Len(src), r) IN /\ Returned("encrypt", res) /\ dbuf' = (IF res.status = "ok" THEN res.out ELSE src) /\ dlen' = res.len /\ UNCHANGED <<pc, ct, calls, alloc_key_len, alloc_tag_len, key_length, testVars, benchVars>>

D_Decrypt == /\ pc = "ready" /\ \E src \in Sources, r \in DataOutcomes : LET res == srtp_cipher_decrypt(c, src, Len(src), r) IN /\ Returned("decrypt", res) /\ dbuf' = (IF res.status = "ok" THEN res.out ELSE src) /\ dlen' = res.len /\ UNCHANGED <<pc, ct, calls, alloc_key_len, alloc_tag_len, key_length, testVars, benchVars>>

D_GetTag == /\ pc = "ready" /\ \E r \in Outcomes : LET res == srtp_cipher_get_tag(c, SRTP_MAX_TAG_LEN, r) IN /\ Returned("get_tag", res) /\ dbuf' = res.out /\ dlen' = res.len /\ UNCHANGED <<pc, ct, calls, alloc_key_len, alloc_tag_len, key_length, testVars, benchVars>>

\* srtp_cipher_output checks nothing: with no instance or no type it reads
\* through a null pointer (the process dies, or the call returns anything);
\* with no state it hands the null state to the cipher's encrypt
D_Output ==
    /\ pc = "ready"
    /\ op' = "output"
    /\ IF IsNull(c) \/ IsNull(c.type)
       THEN \E u \in UBStatuses \cup {"crash"} :
                /\ fwd' = <<>>
                /\ pc' = (IF u = "crash" THEN "crashed" ELSE pc)
                /\ status' = (IF u = "crash" THEN status ELSE u)
                /\ dbuf' = <<>>
                /\ dlen' = 0
                /\ UNCHANGED c
       ELSE IF IsNull(c.state)
       THEN \E n \in {0, 2}, u \in UBStatuses \cup {"crash"} :
                /\ fwd' = <<"encrypt">>
                /\ pc' = (IF u = "crash" THEN "crashed" ELSE pc)
                /\ status' = (IF u = "crash" THEN status ELSE u)
                /\ dbuf' = [k \in 1..n |-> 0]
                /\ dlen' = n
                /\ UNCHANGED c
       ELSE \E n \in {0, 2}, r \in DataOutcomes :
                LET res == srtp_cipher_output(c, n, r)
                IN  /\ status' = res.status
                    /\ fwd' = res.fwd
                    /\ c' = res.c
                    /\ dbuf' = res.out
                    /\ dlen' = res.len
                    /\ UNCHANGED pc
    /\ UNCHANGED <<ct, calls, alloc_key_len, alloc_tag_len, key_length, testVars, benchVars>>

\* the accessor reads c->key_len unconditionally; the caller has an instance
D_GetKeyLength == /\ pc = "ready" /\ ~IsNull(c) /\ op' = "get_key_length" /\ key_length' = srtp_cipher_get_key_length(c) /\ fwd' = <<>> /\ dbuf' = <<>> /\ dlen' = 0 /\ UNCHANGED <<pc, ct, c, status, calls, alloc_key_len, alloc_tag_len, testVars, benchVars>>

NextDispatch == \/ D_Alloc \/ D_Dealloc \/ D_Init \/ D_SetIv \/ D_SetAad \/ D_Encrypt \/ D_Decrypt \/ D_GetTag \/ D_Output \/ D_GetKeyLength

SpecDispatch == InitDispatch /\ [][NextDispatch]_vars

---------------------------------------------------------------------------
(* srtp_cipher_type_test: inputs *)

\* the keyed state a faithful cipher is in when it encrypts a vector
VecState(aead, k, v, aad, tlen) == [null |-> FALSE, key |-> k, iv |-> v, dir |-> "srtp_direction_encrypt", aad |-> (IF aead THEN aad ELSE 0), acc |-> 0, tlen |-> tlen, aead |-> aead]

\* the ciphertext (with tag, for AEAD) a faithful cipher gives
RightCiphertext(aead, k, v, aad, tlen, pt) == LET st == VecState(aead, k, v, aad, tlen) body == EncBytes(st, pt) IN IF aead THEN body \o TagBytes(st, Sum(body)) ELSE body

\* a srtp_cipher_test_case_t
Vector(klen, k, v, aad, pt, cph, tlen) == [key_length_octets |-> klen, key |-> k, idx |-> v, plaintext_length_octets |-> Len(pt), plaintext |-> pt, ciphertext_length_octets |-> Len(cph), ciphertext |-> cph, aad_length_octets |-> 1, aad |-> aad, tag_length_octets |-> tlen]

Ramp(n) == [k \in 1..n |-> (k * 5) % 256]

\* right stream-cipher vector; wrong ciphertext octet; 129-octet ciphertext;
\* 129-octet plaintext declared with a 128-octet ciphertext; 65-octet key;
\* right AEAD vector; AEAD vector with empty plaintext
VecGood == Vector(16, 5, 1, 3, <<10, 20>>, RightCiphertext(FALSE, 5, 1, 3, 0, <<10, 20>>), 0)
VecWrong == Vector(16, 5, 1, 3, <<10, 20>>, [RightCiphertext(FALSE, 5, 1, 3, 0, <<10, 20>>) EXCEPT ![2] = (@ + 1) % 256], 0)
VecLongCt == Vector(16, 5, 1, 3, Ramp(SELF_TEST_BUF_OCTETS + 1), RightCiphertext(FALSE, 5, 1, 3, 0, Ramp(SELF_TEST_BUF_OCTETS + 1)), 0)
VecLongPt == Vector(16, 5, 1, 3, Ramp(SELF_TEST_BUF_OCTETS + 1), RightCiphertext(FALSE, 5, 1, 3, 0, Ramp(SELF_TEST_BUF_OCTETS)), 0)
VecLongKey == Vector(MAX_KEY_LEN + 1, 9, 1, 3, <<10>>, RightCiphertext(FALSE, 9, 1, 3, 0, <<10>>), 0)
VecAead == Vector(16, 5, 1, 3, <<10, 20>>, RightCiphertext(TRUE, 5, 1, 3, 8, <<10, 20>>), 8)
VecAeadEmpty == Vector(16, 5, 1, 3, <<>>, RightCiphertext(TRUE, 5, 1, 3, 8, <<>>), 8)

\* test_data names its vectors
Vec(name) == CASE name = "VecGood" -> VecGood [] name = "VecWrong" -> VecWrong [] name = "VecLongCt" -> VecLongCt [] name = "VecLongPt" -> VecLongPt [] name = "VecLongKey" -> VecLongKey [] name = "VecAead" -> VecAead [] OTHER -> VecAeadEmpty

VectorPool == {"VecGood", "VecWrong", "VecLongCt", "VecLongPt", "VecLongKey", "VecAead", "VecAeadEmpty"}

\* the vectors drawn ahead of a list's last one (whatever follows a vector
\* that cannot pass is never looked at)
Leading == {"VecGood", "VecWrong", "VecAead"}

\* the lists drawn: NULL, and up to MaxVectors vectors
VectorLists == {<<>>} \cup UNION {{l \in [1..n -> VectorPool] : \A m \in 1..(n - 1) : l[m] \in Leading} : n \in 1..MaxVectors}

\* the memory the model tracks from &buffer[0] on
MemTop == SELF_TEST_BUF_OCTETS + Overrun

InitTest ==
    /\ pc = "self_test"
    /\ ct \in CipherTypes
    /\ test_data \in VectorLists
    /\ c = NULL
    /\ status = "none"
    /\ calls = <<>>
    /\ test_case = 0
    /\ buffer = [k \in 0..(MemTop - 1) |-> Uninit]
    /\ buffer2 = [k \in 0..(SELF_TEST_BUF_OCTETS - 1) |-> Uninit]
    /\ len = Uninit
    /\ tag_len = Uninit
    /\ j = 0
    /\ plaintext_len = Uninit
    /\ key = Uninit
    /\ iv = Uninit
    /\ ret = "none"
    /\ nAlloc = 0
    /\ deallocs = <<>>
    /\ oob = {}
    /\ bufWrites = 0
    /\ encOut = [n \in 1..Len(test_data) |-> <<Uninit>>]
    /\ decOut = [n \in 1..Len(test_data) |-> <<Uninit>>]
    /\ DispIdle
    /\ BenchIdle

---------------------------------------------------------------------------
(* srtp_cipher_type_test: steps shared by both phases *)

\* *test_case
TC == Vec(test_data[test_case])

Entry(o, a, b, s) == [op |-> o, a |-> a, b |-> b, status |-> s]

DirCode(d) == IF d = "srtp_direction_encrypt" THEN 0 ELSE 1

\* mutant: the error exit returns without deallocating the instance
Bail_leaks(s, lg) ==
    /\ calls' = lg
    /\ ret' = s
    /\ pc' = "done"
    /\ UNCHANGED deallocs

\* mutant: a failing clean-up deallocation replaces the status returned
Bail_returns_cleanup_status(s, lg) ==
    /\ \E rd \in Outcomes :
        /\ calls' = Append(lg, Entry("dealloc", 0, 0, srtp_cipher_dealloc(c, rd).status))
        /\ ret' = (IF rd = "fail" THEN srtp_cipher_dealloc(c, rd).status ELSE s)
    /\ deallocs' = [deallocs EXCEPT ![c.id] = @ + 1]
    /\ pc' = "done"

\* srtp_cipher_dealloc(c); return s;  (lg: the calls made so far)
Bail(s, lg) ==
    /\ \E rd \in Outcomes : calls' = Append(lg, Entry("dealloc", 0, 0, srtp_cipher_dealloc(c, rd).status))
    /\ deallocs' = [deallocs EXCEPT ![c.id] = @ + 1]
    /\ ret' = s
    /\ pc' = "done"

\* fall through to the statement at p
Go(p, lg) ==
    /\ calls' = lg
    /\ pc' = p
    /\ UNCHANGED <<deallocs, ret>>

\* a store past the end of buffer[] is undefined: the process may die of
\* it, or run on to p with the octets where the stores put them
GoAfterStore(p, lg, past) ==
    /\ calls' = lg
    /\ pc' \in (IF past = {} THEN {p} ELSE {p, "crashed"})
    /\ UNCHANGED <<deallocs, ret>>

\* srtp_cipher_type_self_test(ct): test_data holds ct->test_data
srtp_cipher_type_self_test ==
    /\ pc = "self_test"
    /\ pc' = "start"
    /\ UNCHANGED <<ct, c, status, calls, testVars, dispVars, benchVars>>

\* mutant: an empty list is reported as a pass
T_Start_passes_empty ==
    /\ pc = "start"
    /\ IF test_data = <<>>
       THEN /\ ret' = "ok"
            /\ pc' = "done"
            /\ UNCHANGED test_case
       ELSE /\ test_case' = 1
            /\ pc' = "alloc"
            /\ UNCHANGED ret
    /\ UNCHANGED <<ct, c, status, calls, test_data, buffer, buffer2, len, tag_len, j, plaintext_len, key, iv, nAlloc, deallocs, oob, bufWrites, encOut, decOut, dispVars, benchVars>>

\* test_case = test_data; if (test_case == NULL) return cant_check;
T_Start ==
    /\ pc = "start"
    /\ IF test_data = <<>>
       THEN /\ ret' = "cant_check"
            /\ pc' = "done"
            /\ UNCHANGED test_case
       ELSE /\ test_case' = 1
            /\ pc' = "alloc"
            /\ UNCHANGED ret
    /\ UNCHANGED <<ct, c, status, calls, test_data, buffer, buffer2, len, tag_len, j, plaintext_len, key, iv, nAlloc, deallocs, oob, bufWrites, encOut, decOut, dispVars, benchVars>>

---------------------------------------------------------------------------
(* srtp_cipher_type_test: the known-answer pass, one vector per instance *)

\* mutant: only the first octet is compared
Mismatch_first_octet(mem, expect, n) == n > 0 /\ mem[0] # expect[1]

\* the comparison loops: some octet below n differs
Mismatch(mem, expect, n) == \E k \in 0..(n - 1) : mem[k] # expect[k + 1]


\* status = srtp_cipher_type_alloc(ct, &c, key_length_octets, tag_length_octets)
T_Alloc ==
    /\ pc = "alloc"
    /\ \E r \in Outcomes :
        LET res == srtp_cipher_type_alloc(ct, c, TC.key_length_octets, TC.tag_length_octets, nAlloc + 1, r)
        IN  /\ c' = res.c
            /\ status' = res.status
            /\ calls' = <<Entry("alloc", TC.key_length_octets, TC.tag_length_octets, res.status)>>
            /\ IF res.status # "ok"
               THEN /\ ret' = res.status
                    /\ pc' = "done"
                    /\ UNCHANGED <<nAlloc, deallocs>>
               ELSE /\ nAlloc' = nAlloc + 1
                    /\ deallocs' = Append(deallocs, 0)
                    /\ pc' = "init_enc"
                    /\ UNCHANGED ret
    /\ bufWrites' = 0
    /\ UNCHANGED <<ct, test_data, test_case, buffer, buffer2, len, tag_len, j, plaintext_len, key, iv, oob, encOut, decOut, dispVars, benchVars>>

\* status = srtp_cipher_init(c, test_case->key)
T_InitEnc ==
    /\ pc = "init_enc"
    /\ \E r \in Outcomes :
        LET res == srtp_cipher_init(c, TC.key, r)
            lg == Append(calls, Entry("init", TC.key, 0, res.status))
        IN  /\ c' = res.c
            /\ status' = res.status
            /\ IF res.status # "ok" THEN Bail(res.status, lg) ELSE Go("copy_plain", lg)
    /\ UNCHANGED <<ct, test_data, test_case, buffer, buffer2, len, tag_len, j, plaintext_len, key, iv, nAlloc, oob, bufWrites, encOut, decOut, dispVars, benchVars>>

\* mutant: the capacity check looks at the plaintext length only, after the copy
T_CopyPlain_unchecked ==
    /\ pc = "copy_plain"
    /\ LET n == TC.plaintext_length_octets
           past == Beyond(SELF_TEST_BUF_OCTETS, 0, n)
       IN  /\ buffer' = Store(buffer, 0, TC.plaintext)
           /\ bufWrites' = bufWrites + n
           /\ oob' = oob \cup past
           /\ IF TC.ciphertext_length_octets > SELF_TEST_BUF_OCTETS
              THEN Go("set_iv_enc", calls)
              ELSE GoAfterStore("set_iv_enc", calls, past)
    /\ UNCHANGED <<ct, c, status, test_data, test_case, buffer2, len, tag_len, j, plaintext_len, key, iv, nAlloc, encOut, decOut, dispVars, benchVars>>

\* if (ciphertext_length_octets > SELF_TEST_BUF_OCTETS) { dealloc; return bad_param; }
\* for (k = 0; k < plaintext_length_octets; k++) buffer[k] = plaintext[k];
T_CopyPlain ==
    /\ pc = "copy_plain"
    /\ IF TC.ciphertext_length_octets > SELF_TEST_BUF_OCTETS
       THEN /\ Bail("bad_param", calls)
            /\ UNCHANGED <<buffer, bufWrites, oob>>
       ELSE LET n == TC.plaintext_length_octets
                past == Beyond(SELF_TEST_BUF_OCTETS, 0, n)
            IN  /\ buffer' = Store(buffer, 0, TC.plaintext)
                /\ bufWrites' = bufWrites + n
                /\ oob' = oob \cup past
                /\ GoAfterStore("set_iv_enc", calls, past)
    /\ UNCHANGED <<ct, c, status, test_data, test_case, buffer2, len, tag_len, j, plaintext_len, key, iv, nAlloc, encOut, decOut, dispVars, benchVars>>

\* status = srtp_cipher_set_iv(c, test_case->idx, srtp_direction_encrypt)
T_SetIvEnc ==
    /\ pc = "set_iv_enc"
    /\ \E r \in Outcomes :
        LET res == srtp_cipher_set_iv(c, TC.idx, "srtp_direction_encrypt", r)
            lg == Append(calls, Entry("set_iv", TC.idx, 0, res.status))
        IN  /\ c' = res.c
            /\ status' = res.status
            /\ IF res.status # "ok" THEN Bail(res.status, lg) ELSE Go(IF IsGCM(c.algorithm) THEN "set_aad_enc" ELSE "encrypt", lg)
    /\ UNCHANGED <<ct, test_data, test_case, buffer, buffer2, len, tag_len, j, plaintext_len, key, iv, nAlloc, oob, bufWrites, encOut, decOut, dispVars, benchVars>>

\* GCM only: status = srtp_cipher_set_aad(c, test_case->aad, aad_length_octets)
T_SetAadEnc ==
    /\ pc = "set_aad_enc"
    /\ \E r \in Outcomes :
        LET res == srtp_cipher_set_aad(c, TC.aad, r)
            lg == Append(calls, Entry("set_aad", TC.aad, TC.aad_length_octets, res.status))
        IN  /\ c' = res.c
            /\ status' = res.status
            /\ IF res.status # "ok" THEN Bail(res.status, lg) ELSE Go("encrypt", lg)
    /\ UNCHANGED <<ct, test_data, test_case, buffer, buffer2, len, tag_len, j, plaintext_len, key, iv, nAlloc, oob, bufWrites, encOut, decOut, dispVars, benchVars>>

\* len = sizeof(buffer); status = srtp_cipher_encrypt(c, buffer, plaintext_length_octets, buffer, &len)
T_Encrypt ==
    /\ pc = "encrypt"
    /\ \E r \in DataOutcomes :
        LET res == srtp_cipher_encrypt(c, Slice(buffer, 0, TC.plaintext_length_octets), SELF_TEST_BUF_OCTETS, r)
            lg == Append(calls, Entry("encrypt", TC.plaintext_length_octets, 0, res.status))
        IN  /\ c' = res.c
            /\ status' = res.status
            /\ buffer' = Store(buffer, 0, res.out)
            /\ bufWrites' = bufWrites + Len(res.out)
            /\ len' = res.len
            /\ IF res.status # "ok" THEN Bail(res.status, lg) ELSE Go(IF IsGCM(c.algorithm) THEN "get_tag" ELSE "cmp_enc", lg)
    /\ UNCHANGED <<ct, test_data, test_case, buffer2, tag_len, j, plaintext_len, key, iv, nAlloc, oob, encOut, decOut, dispVars, benchVars>>

\* GCM only: status = srtp_cipher_get_tag(c, buffer + len, &tag_len); len += tag_len
T_GetTag ==
    /\ pc = "get_tag"
    /\ \E r \in Outcomes :
        LET res == srtp_cipher_get_tag(c, tag_len, r)
            lg == Append(calls, Entry("get_tag", len, 0, res.status))
            past == Beyond(SELF_TEST_BUF_OCTETS, len, Len(res.out))
        IN  /\ c' = res.c
            /\ status' = res.status
            /\ buffer' = Store(buffer, len, res.out)
            /\ bufWrites' = bufWrites + Len(res.out)
            /\ oob' = oob \cup past
            /\ tag_len' = res.len
            /\ IF res.status # "ok"
               THEN Bail(res.status, lg) /\ UNCHANGED len
               ELSE GoAfterStore("cmp_enc", lg, past) /\ len' = len + res.len
    /\ UNCHANGED <<ct, test_data, test_case, buffer2, j, plaintext_len, key, iv, nAlloc, encOut, decOut, dispVars, benchVars>>

\* compare len and buffer[0..] with the test case's ciphertext
T_CompareEnc ==
    /\ pc = "cmp_enc"
    /\ encOut' = [encOut EXCEPT ![test_case] = Slice(buffer, 0, Min(len, MemTop))]
    /\ IF len # TC.ciphertext_length_octets
       THEN /\ Bail("algo_fail", calls)
            /\ UNCHANGED status
       ELSE LET bad == Mismatch(buffer, TC.ciphertext, TC.ciphertext_length_octets)
            IN  /\ status' = (IF bad THEN "algo_fail" ELSE "ok")
                /\ IF bad THEN Bail("algo_fail", calls) ELSE Go("init_dec", calls)
    /\ UNCHANGED <<ct, c, test_data, test_case, buffer, buffer2, len, tag_len, j, plaintext_len, key, iv, nAlloc, oob, bufWrites, decOut, dispVars, benchVars>>

\* mutant: a failed re-initialization does not stop the vector
T_InitDec_ignores_status ==
    /\ pc = "init_dec"
    /\ \E r \in Outcomes :
        LET res == srtp_cipher_init(c, TC.key, r)
            lg == Append(calls, Entry("init", TC.key, 0, res.status))
        IN  /\ c' = res.c
            /\ status' = res.status
            /\ Go("copy_cipher", lg)
    /\ UNCHANGED <<ct, test_data, test_case, buffer, buffer2, len, tag_len, j, plaintext_len, key, iv, nAlloc, oob, bufWrites, encOut, decOut, dispVars, benchVars>>

\* re-initialize: status = srtp_cipher_init(c, test_case->key)
T_InitDec ==
    /\ pc = "init_dec"
    /\ \E r \in Outcomes :
        LET res == srtp_cipher_init(c, TC.key, r)
            lg == Append(calls, Entry("init", TC.key, 0, res.status))
        IN  /\ c' = res.c
            /\ status' = res.status
            /\ IF res.status # "ok" THEN Bail(res.status, lg) ELSE Go("copy_cipher", lg)
    /\ UNCHANGED <<ct, test_data, test_case, buffer, buffer2, len, tag_len, j, plaintext_len, key, iv, nAlloc, oob, bufWrites, encOut, decOut, dispVars, benchVars>>

\* the capacity check again, then buffer[k] = ciphertext[k] for k below ciphertext_length_octets
T_CopyCipher ==
    /\ pc = "copy_cipher"
    /\ IF TC.ciphertext_length_octets > SELF_TEST_BUF_OCTETS
       THEN /\ Bail("bad_param", calls)
            /\ UNCHANGED <<buffer, bufWrites, oob>>
       ELSE LET n == TC.ciphertext_length_octets
                past == Beyond(SELF_TEST_BUF_OCTETS, 0, n)
            IN  /\ buffer' = Store(buffer, 0, TC.ciphertext)
                /\ bufWrites' = bufWrites + n
                /\ oob' = oob \cup past
                /\ GoAfterStore("set_iv_dec", calls, past)
    /\ UNCHANGED <<ct, c, status, test_data, test_case, buffer2, len, tag_len, j, plaintext_len, key, iv, nAlloc, encOut, decOut, dispVars, benchVars>>

\* mutant: the associated data is not set again for decryption
T_SetIvDec_skips_aad ==
    /\ pc = "set_iv_dec"
    /\ \E r \in Outcomes :
        LET res == srtp_cipher_set_iv(c, TC.idx, "srtp_direction_decrypt", r)
            lg == Append(calls, Entry("set_iv", TC.idx, 1, res.status))
        IN  /\ c' = res.c
            /\ status' = res.status
            /\ IF res.status # "ok" THEN Bail(res.status, lg) ELSE Go("decrypt", lg)
    /\ UNCHANGED <<ct, test_data, test_case, buffer, buffer2, len, tag_len, j, plaintext_len, key, iv, nAlloc, oob, bufWrites, encOut, decOut, dispVars, benchVars>>

\* status = srtp_cipher_set_iv(c, test_case->idx, srtp_direction_decrypt)
T_SetIvDec ==
    /\ pc = "set_iv_dec"
    /\ \E r \in Outcomes :
        LET res == srtp_cipher_set_iv(c, TC.idx, "srtp_direction_decrypt", r)
            lg == Append(calls, Entry("set_iv", TC.idx, 1, res.status))
        IN  /\ c' = res.c
            /\ status' = res.status
            /\ IF res.status # "ok" THEN Bail(res.status, lg) ELSE Go(IF IsGCM(c.algorithm) THEN "set_aad_dec" ELSE "decrypt", lg)
    /\ UNCHANGED <<ct, test_data, test_case, buffer, buffer2, len, tag_len, j, plaintext_len, key, iv, nAlloc, oob, bufWrites, encOut, decOut, dispVars, benchVars>>

\* GCM only: status = srtp_cipher_set_aad(c, test_case->aad, aad_length_octets)
T_SetAadDec ==
    /\ pc = "set_aad_dec"
    /\ \E r \in Outcomes :
        LET res == srtp_cipher_set_aad(c, TC.aad, r)
            lg == Append(calls, Entry("set_aad", TC.aad, TC.aad_length_octets, res.status))
        IN  /\ c' = res.c
            /\ status' = res.status
            /\ IF res.status # "ok" THEN Bail(res.status, lg) ELSE Go("decrypt", lg)
    /\ UNCHANGED <<ct, test_data, test_case, buffer, buffer2, len, tag_len, j, plaintext_len, key, iv, nAlloc, oob, bufWrites, encOut, decOut, dispVars, benchVars>>

\* len = sizeof(buffer); status = srtp_cipher_decrypt(c, buffer, ciphertext_length_octets, buffer, &len)
T_Decrypt ==
    /\ pc = "decrypt"
    /\ \E r \in DataOutcomes :
        LET res == srtp_cipher_decrypt(c, Slice(buffer, 0, TC.ciphertext_length_octets), SELF_TEST_BUF_OCTETS, r)
            lg == Append(calls, Entry("decrypt", TC.ciphertext_length_octets, 0, res.status))
        IN  /\ c' = res.c
            /\ status' = res.status
            /\ buffer' = Store(buffer, 0, res.out)
            /\ bufWrites' = bufWrites + Len(res.out)
            /\ len' = res.len
            /\ IF res.status # "ok" THEN Bail(res.status, lg) ELSE Go("cmp_dec", lg)
    /\ UNCHANGED <<ct, test_data, test_case, buffer2, tag_len, j, plaintext_len, key, iv, nAlloc, oob, encOut, decOut, dispVars, benchVars>>

\* compare len and buffer[0..] with the test case's plaintext
T_CompareDec ==
    /\ pc = "cmp_dec"
    /\ decOut' = [decOut EXCEPT ![test_case] = Slice(buffer, 0, Min(len, MemTop))]
    /\ IF len # TC.plaintext_length_octets
       THEN /\ Bail("algo_fail", calls)
            /\ UNCHANGED status
       ELSE LET bad == Mismatch(buffer, TC.plaintext, TC.plaintext_length_octets)
            IN  /\ status' = (IF bad THEN "algo_fail" ELSE "ok")
                /\ IF bad THEN Bail("algo_fail", calls) ELSE Go("dealloc", calls)
    /\ UNCHANGED <<ct, c, test_data, test_case, buffer, buffer2, len, tag_len, j, plaintext_len, key, iv, nAlloc, oob, bufWrites, encOut, dispVars, benchVars>>

\* status = srtp_cipher_dealloc(c); if (status) return status;
\* test_case = test_case->next_test_case;
T_Dealloc ==
    /\ pc = "dealloc"
    /\ \E r \in Outcomes :
        LET res == srtp_cipher_dealloc(c, r)
        IN  /\ status' = res.status
            /\ calls' = Append(calls, Entry("dealloc", 0, 0, res.status))
            /\ deallocs' = [deallocs EXCEPT ![c.id] = @ + 1]
            /\ IF res.status # "ok"
               THEN /\ ret' = res.status
                    /\ pc' = "done"
                    /\ UNCHANGED test_case
               ELSE /\ test_case' = (IF test_case < Len(test_data) THEN test_case + 1 ELSE 0)
                    /\ pc' = (IF test_case < Len(test_data) THEN "alloc" ELSE "rand_alloc")
                    /\ UNCHANGED ret
    /\ UNCHANGED <<ct, c, test_data, buffer, buffer2, len, tag_len, j, plaintext_len, key, iv, nAlloc, oob, bufWrites, encOut, decOut, dispVars, benchVars>>

---------------------------------------------------------------------------
(* srtp_cipher_type_test: the randomized round trips, all on one instance *)

\* the seeds drawn for the C library's rand() at the start of a trial
RandSeeds == {0, 319}

\* the n-th value rand() gives from a seed (0..32767)
RandValue(seed, n) == (seed + 293 * n) % 32768

\* srtp_cipher_rand_for_tests(dest, n): rand() & 0xff, n times, starting
\* with the from-th value of the stream
srtp_cipher_rand_for_tests(seed, from, n) == [k \in 1..n |-> RandValue(seed, from + k - 1) % 256]

\* mutant: the remainder may reach the modulus
U32Mod_inclusive(o, m) == (((((((o[4] % m) * 256 + o[3]) % m) * 256 + o[2]) % m) * 256) + o[1]) % (m + 1)

\* srtp_cipher_rand_u32_for_tests() % m, the 32-bit word being the four
\* octets drawn, least significant first
U32Mod(o, m) == (((((((o[4] % m) * 256 + o[3]) % m) * 256 + o[2]) % m) * 256) + o[1]) % m


\* mutant: the instance is sized with the last vector's parameters
R_Alloc_last_vector ==
    /\ pc = "rand_alloc"
    /\ \E r \in Outcomes :
        LET res == srtp_cipher_type_alloc(ct, c, Vec(test_data[Len(test_data)]).key_length_octets, Vec(test_data[Len(test_data)]).tag_length_octets, nAlloc + 1, r)
        IN  /\ c' = res.c
            /\ status' = res.status
            /\ calls' = <<Entry("alloc", Vec(test_data[Len(test_data)]).key_length_octets, Vec(test_data[Len(test_data)]).tag_length_octets, res.status)>>
            /\ IF res.status # "ok"
               THEN /\ ret' = res.status
                    /\ pc' = "done"
                    /\ UNCHANGED <<nAlloc, deallocs>>
               ELSE /\ nAlloc' = nAlloc + 1
                    /\ deallocs' = Append(deallocs, 0)
                    /\ pc' = "r_draw"
                    /\ UNCHANGED ret
    /\ bufWrites' = 0
    /\ test_case' = 1
    /\ j' = 0
    /\ UNCHANGED <<ct, test_data, buffer, buffer2, len, tag_len, plaintext_len, key, iv, oob, encOut, decOut, dispVars, benchVars>>

\* test_case = test_data; status = srtp_cipher_type_alloc(ct, &c, key_length_octets, tag_length_octets)
R_Alloc ==
    /\ pc = "rand_alloc"
    /\ \E r \in Outcomes :
        LET res == srtp_cipher_type_alloc(ct, c, Vec(test_data[1]).key_length_octets, Vec(test_data[1]).tag_length_octets, nAlloc + 1, r)
        IN  /\ c' = res.c
            /\ status' = res.status
            /\ calls' = <<Entry("alloc", Vec(test_data[1]).key_length_octets, Vec(test_data[1]).tag_length_octets, res.status)>>
            /\ IF res.status # "ok"
               THEN /\ ret' = res.status
                    /\ pc' = "done"
                    /\ UNCHANGED <<nAlloc, deallocs>>
               ELSE /\ nAlloc' = nAlloc + 1
                    /\ deallocs' = Append(deallocs, 0)
                    /\ pc' = "r_draw"
                    /\ UNCHANGED ret
    /\ bufWrites' = 0
    /\ test_case' = 1
    /\ j' = 0
    /\ UNCHANGED <<ct, test_data, buffer, buffer2, len, tag_len, plaintext_len, key, iv, oob, encOut, decOut, dispVars, benchVars>>

\* the head of a trial: the length, the plaintext and its copy, the key
\* (checked against MAX_KEY_LEN) and the IV are drawn; a key and an IV are
\* held as their first octet
R_Draw ==
    /\ pc = "r_draw"
    /\ \E seed \in RandSeeds :
        LET n == U32Mod(srtp_cipher_rand_for_tests(seed, 0, 4), SELF_TEST_BUF_OCTETS - 64)
            pt == srtp_cipher_rand_for_tests(seed, 4, n)
        IN  /\ plaintext_len' = n
            /\ buffer' = Store(buffer, 0, pt)
            /\ buffer2' = Store(buffer2, 0, pt)
            /\ bufWrites' = n
            /\ IF TC.key_length_octets > MAX_KEY_LEN
               THEN /\ Bail("cant_check", <<>>)
                    /\ UNCHANGED <<key, iv>>
               ELSE /\ key' = srtp_cipher_rand_for_tests(seed, 4 + n, TC.key_length_octets)[1]
                    /\ iv' = srtp_cipher_rand_for_tests(seed, 4 + n + TC.key_length_octets, MAX_KEY_LEN)[1]
                    /\ Go("r_init_enc", <<>>)
    /\ UNCHANGED <<ct, c, status, test_data, test_case, len, tag_len, j, nAlloc, oob, encOut, decOut, dispVars, benchVars>>

\* status = srtp_cipher_init(c, key)
R_InitEnc ==
    /\ pc = "r_init_enc"
    /\ \E r \in Outcomes :
        LET res == srtp_cipher_init(c, key, r)
            lg == Append(calls, Entry("init", key, 0, res.status))
        IN  /\ c' = res.c
            /\ status' = res.status
            /\ IF res.status # "ok" THEN Bail(res.status, lg) ELSE Go("r_set_iv_enc", lg)
    /\ UNCHANGED <<ct, test_data, test_case, buffer, buffer2, len, tag_len, j, plaintext_len, key, iv, nAlloc, oob, bufWrites, encOut, decOut, dispVars, benchVars>>

\* mutant: the encrypt direction is set up with the IV drawn in the trial
R_SetIvEnc_random_iv ==
    /\ pc = "r_set_iv_enc"
    /\ \E r \in Outcomes :
        LET res == srtp_cipher_set_iv(c, iv, "srtp_direction_encrypt", r)
            lg == Append(calls, Entry("set_iv", iv, 0, res.status))
        IN  /\ c' = res.c
            /\ status' = res.status
            /\ IF res.status # "ok" THEN Bail(res.status, lg) ELSE Go(IF IsGCM(c.algorithm) THEN "r_set_aad_enc" ELSE "r_encrypt", lg)
    /\ UNCHANGED <<ct, test_data, test_case, buffer, buffer2, len, tag_len, j, plaintext_len, key, iv, nAlloc, oob, bufWrites, encOut, decOut, dispVars, benchVars>>

\* status = srtp_cipher_set_iv(c, test_case->idx, srtp_direction_encrypt)
R_SetIvEnc ==
    /\ pc = "r_set_iv_enc"
    /\ \E r \in Outcomes :
        LET res == srtp_cipher_set_iv(c, TC.idx, "srtp_direction_encrypt", r)
            lg == Append(calls, Entry("set_iv", TC.idx, 0, res.status))
        IN  /\ c' = res.c
            /\ status' = res.status
            /\ IF res.status # "ok" THEN Bail(res.status, lg) ELSE Go(IF IsGCM(c.algorithm) THEN "r_set_aad_enc" ELSE "r_encrypt", lg)
    /\ UNCHANGED <<ct, test_data, test_case, buffer, buffer2, len, tag_len, j, plaintext_len, key, iv, nAlloc, oob, bufWrites, encOut, decOut, dispVars, benchVars>>

\* GCM only: status = srtp_cipher_set_aad(c, test_case->aad, aad_length_octets)
R_SetAadEnc ==
    /\ pc = "r_set_aad_enc"
    /\ \E r \in Outcomes :
        LET res == srtp_cipher_set_aad(c, TC.aad, r)
            lg == Append(calls, Entry("set_aad", TC.aad, TC.aad_length_octets, res.status))
        IN  /\ c' = res.c
            /\ status' = res.status
            /\ IF res.status # "ok" THEN Bail(res.status, lg) ELSE Go("r_encrypt", lg)
    /\ UNCHANGED <<ct, test_data, test_case, buffer, buffer2, len, tag_len, j, plaintext_len, key, iv, nAlloc, oob, bufWrites, encOut, decOut, dispVars, benchVars>>

\* encrypted_len = sizeof(buffer); status = srtp_cipher_encrypt(c, buffer, plaintext_len, buffer, &encrypted_len)
R_Encrypt ==
    /\ pc = "r_encrypt"
    /\ \E r \in DataOutcomes :
        LET res == srtp_cipher_encrypt(c, Slice(buffer, 0, plaintext_len), SELF_TEST_BUF_OCTETS, r)
            lg == Append(calls, Entry("encrypt", plaintext_len, 0, res.status))
        IN  /\ c' = res.c
            /\ status' = res.status
            /\ buffer' = Store(buffer, 0, res.out)
            /\ bufWrites' = bufWrites + Len(res.out)
            /\ len' = res.len
            /\ IF res.status # "ok" THEN Bail(res.status, lg) ELSE Go(IF IsGCM(c.algorithm) THEN "r_get_tag" ELSE "r_init_dec", lg)
    /\ UNCHANGED <<ct, test_data, test_case, buffer2, tag_len, j, plaintext_len, key, iv, nAlloc, oob, encOut, decOut, dispVars, benchVars>>

\* GCM only: status = srtp_cipher_get_tag(c, buffer + encrypted_len, &tag_len); encrypted_len += tag_len
R_GetTag ==
    /\ pc = "r_get_tag"
    /\ \E r \in Outcomes :
        LET res == srtp_cipher_get_tag(c, tag_len, r)
            lg == Append(calls, Entry("get_tag", len, 0, res.status))
            past == Beyond(SELF_TEST_BUF_OCTETS, len, Len(res.out))
        IN  /\ c' = res.c
            /\ status' = res.status
            /\ buffer' = Store(buffer, len, res.out)
            /\ bufWrites' = bufWrites + Len(res.out)
            /\ oob' = oob \cup past
            /\ tag_len' = res.len
            /\ IF res.status # "ok"
               THEN Bail(res.status, lg) /\ UNCHANGED len
               ELSE GoAfterStore("r_init_dec", lg, past) /\ len' = len + res.len
    /\ UNCHANGED <<ct, test_data, test_case, buffer2, j, plaintext_len, key, iv, nAlloc, encOut, decOut, dispVars, benchVars>>

\* re-initialize: status = srtp_cipher_init(c, key)
R_InitDec ==
    /\ pc = "r_init_dec"
    /\ \E r \in Outcomes :
        LET res == srtp_cipher_init(c, key, r)
            lg == Append(calls, Entry("init", key, 0, res.status))
        IN  /\ c' = res.c
            /\ status' = res.status
            /\ IF res.status # "ok" THEN Bail(res.status, lg) ELSE Go("r_set_iv_dec", lg)
    /\ UNCHANGED <<ct, test_data, test_case, buffer, buffer2, len, tag_len, j, plaintext_len, key, iv, nAlloc, oob, bufWrites, encOut, decOut, dispVars, benchVars>>

\* status = srtp_cipher_set_iv(c, test_case->idx, srtp_direction_decrypt)
R_SetIvDec ==
    /\ pc = "r_set_iv_dec"
    /\ \E r \in Outcomes :
        LET res == srtp_cipher_set_iv(c, TC.idx, "srtp_direction_decrypt", r)
            lg == Append(calls, Entry("set_iv", TC.idx, 1, res.status))
        IN  /\ c' = res.c
            /\ status' = res.status
            /\ IF res.status # "ok" THEN Bail(res.status, lg) ELSE Go(IF IsGCM(c.algorithm) THEN "r_set_aad_dec" ELSE "r_decrypt", lg)
    /\ UNCHANGED <<ct, test_data, test_case, buffer, buffer2, len, tag_len, j, plaintext_len, key, iv, nAlloc, oob, bufWrites, encOut, decOut, dispVars, benchVars>>

\* GCM only: status = srtp_cipher_set_aad(c, test_case->aad, aad_length_octets)
R_SetAadDec ==
    /\ pc = "r_set_aad_dec"
    /\ \E r \in Outcomes :
        LET res == srtp_cipher_set_aad(c, TC.aad, r)
            lg == Append(calls, Entry("set_aad", TC.aad, TC.aad_length_octets, res.status))
        IN  /\ c' = res.c
            /\ status' = res.status
            /\ IF res.status # "ok" THEN Bail(res.status, lg) ELSE Go("r_decrypt", lg)
    /\ UNCHANGED <<ct, test_data, test_case, buffer, buffer2, len, tag_len, j, plaintext_len, key, iv, nAlloc, oob, bufWrites, encOut, decOut, dispVars, benchVars>>

\* decrypted_len = sizeof(buffer); status = srtp_cipher_decrypt(c, buffer, encrypted_len, buffer, &decrypted_len)
R_Decrypt ==
    /\ pc = "r_decrypt"
    /\ \E r \in DataOutcomes :
        LET res == srtp_cipher_decrypt(c, Slice(buffer, 0, len), SELF_TEST_BUF_OCTETS, r)
            lg == Append(calls, Entry("decrypt", len, 0, res.status))
        IN  /\ c' = res.c
            /\ status' = res.status
            /\ buffer' = Store(buffer, 0, res.out)
            /\ bufWrites' = bufWrites + Len(res.out)
            /\ len' = res.len
            /\ IF res.status # "ok" THEN Bail(res.status, lg) ELSE Go("r_compare", lg)
    /\ UNCHANGED <<ct, test_data, test_case, buffer2, tag_len, j, plaintext_len, key, iv, nAlloc, oob, encOut, decOut, dispVars, benchVars>>

\* mutant: only the lengths are compared
R_Compare_length_only ==
    /\ pc = "r_compare"
    /\ IF len # plaintext_len
       THEN /\ Bail("algo_fail", calls)
            /\ UNCHANGED <<status, j>>
       ELSE LET bad == FALSE
            IN  /\ status' = (IF bad THEN "algo_fail" ELSE "ok")
                /\ IF bad
                   THEN Bail("algo_fail", calls) /\ UNCHANGED j
                   ELSE Go(IF j + 1 < NUM_RAND_TESTS THEN "r_draw" ELSE "r_dealloc", calls) /\ j' = j + 1
    /\ UNCHANGED <<ct, c, test_data, test_case, buffer, buffer2, len, tag_len, plaintext_len, key, iv, nAlloc, oob, bufWrites, encOut, decOut, dispVars, benchVars>>

\* compare decrypted_len and buffer[0..] with plaintext_len and buffer2; j++
R_Compare ==
    /\ pc = "r_compare"
    /\ IF len # plaintext_len
       THEN /\ Bail("algo_fail", calls)
            /\ UNCHANGED <<status, j>>
       ELSE LET bad == Mismatch(buffer, Slice(buffer2, 0, plaintext_len), plaintext_len)
            IN  /\ status' = (IF bad THEN "algo_fail" ELSE "ok")
                /\ IF bad
                   THEN Bail("algo_fail", calls) /\ UNCHANGED j
                   ELSE Go(IF j + 1 < NUM_RAND_TESTS THEN "r_draw" ELSE "r_dealloc", calls) /\ j' = j + 1
    /\ UNCHANGED <<ct, c, test_data, test_case, buffer, buffer2, len, tag_len, plaintext_len, key, iv, nAlloc, oob, bufWrites, encOut, decOut, dispVars, benchVars>>

\* status = srtp_cipher_dealloc(c); if (status) return status; return ok;
R_Dealloc ==
    /\ pc = "r_dealloc"
    /\ \E r \in Outcomes :
        LET res == srtp_cipher_dealloc(c, r)
        IN  /\ status' = res.status
            /\ calls' = Append(calls, Entry("dealloc", 0, 0, res.status))
            /\ deallocs' = [deallocs EXCEPT ![c.id] = @ + 1]
            /\ ret' = res.status
            /\ pc' = "done"
    /\ UNCHANGED <<ct, c, test_data, test_case, buffer, buffer2, len, tag_len, j, plaintext_len, key, iv, nAlloc, oob, bufWrites, encOut, decOut, dispVars, benchVars>>

NextTest ==
    \/ srtp_cipher_type_self_test \/ T_Start \/ T_Alloc \/ T_InitEnc \/ T_CopyPlain \/ T_SetIvEnc \/ T_SetAadEnc
    \/ T_Encrypt \/ T_GetTag \/ T_CompareEnc \/ T_InitDec \/ T_CopyCipher \/ T_SetIvDec \/ T_SetAadDec
    \/ T_Decrypt \/ T_CompareDec \/ T_Dealloc \/ R_Alloc \/ R_Draw \/ R_InitEnc \/ R_SetIvEnc \/ R_SetAadEnc
    \/ R_Encrypt \/ R_GetTag \/ R_InitDec \/ R_SetIvDec \/ R_SetAadDec \/ R_Decrypt \/ R_Compare \/ R_Dealloc

SpecTest == InitTest /\ [][NextTest]_vars

---------------------------------------------------------------------------
(* srtp_cipher_bits_per_second(c, octets_in_buffer, num_trials)            *)
(* The products formed below stay under 2^31 for the inputs drawn, so      *)
(* the uint64_t arithmetic of line 696 does not wrap here.                 *)

\* payload sizes given to the benchmark
BenchOctets == {0, 2, 5}

\* what clock() - timer can measure: nothing, little, more than the product
Ticks == {0, 1, 7, 500000000}

\* what srtp_crypto_alloc leaves in the scratch buffer (indeterminate)
Fills == {0, 255}

\* c "MUST be allocated and initialized already"
InitBench ==
    /\ pc = "bench"
    /\ ct \in {t \in CipherTypes : t.alloc}
    /\ c = srtp_cipher_init(Concrete_alloc(ct, 16, 8, 1), 5, "ok").c
    /\ status = "none"
    /\ calls = <<>>
    /\ octets_in_buffer \in BenchOctets
    /\ num_trials \in 0..MaxTrials
    /\ i = 0
    /\ nonce = <<0, 0, 0, 0>>
    /\ b_len = 0
    /\ b_tag_len = 0
    /\ enc_buf = "none"
    /\ nFree = 0
    /\ timer = 0
    /\ failed = "none"
    /\ result = Uninit
    /\ DispIdle
    /\ TestIdle

\* mutant: an error path returns without freeing enc_buf
GiveUp_leaks(step) ==
    /\ UNCHANGED <<enc_buf, nFree>>
    /\ failed' = step
    /\ result' = 0
    /\ pc' = "done"

\* srtp_crypto_free(enc_buf); return 0;
GiveUp(step) ==
    /\ enc_buf' = "freed"
    /\ nFree' = nFree + 1
    /\ failed' = step
    /\ result' = 0
    /\ pc' = "done"

\* mutant: the quotient is rounded up
Quotient_rounded_up(product, ticks) == (product + ticks - 1) \div ticks

\* the integer division of line 696
Quotient(product, ticks) == product \div ticks

\* len = octets_in_buffer; tag_len = SRTP_MAX_TAG_LEN; enc_buf =
\* srtp_crypto_alloc(octets_in_buffer + tag_len); NULL: return 0;
\* v128_set_to_zero(&nonce); timer = clock(); i = 0
B_Alloc ==
    /\ pc = "bench"
    /\ \E r \in Outcomes :
        IF r = "fail"
        THEN /\ failed' = "alloc"
             /\ result' = 0
             /\ pc' = "done"
             /\ UNCHANGED <<enc_buf, dbuf, b_len, b_tag_len>>
        ELSE /\ \E fill \in Fills : dbuf' = [n \in 1..(octets_in_buffer + SRTP_MAX_TAG_LEN) |-> fill]
             /\ enc_buf' = "live"
             /\ b_len' = octets_in_buffer
             /\ b_tag_len' = SRTP_MAX_TAG_LEN
             /\ pc' = "b_loop"
             /\ UNCHANGED <<failed, result>>
    /\ i' = 0
    /\ nonce' = <<0, 0, 0, 0>>
    /\ UNCHANGED <<ct, c, status, calls, op, fwd, alloc_key_len, alloc_tag_len, key_length, dlen, octets_in_buffer, num_trials, nFree, timer, testVars>>

\* i < num_trials: srtp_cipher_set_iv(c, (uint8_t *)&nonce, srtp_direction_encrypt)
B_SetIv ==
    /\ pc = "b_loop"
    /\ i < num_trials
    /\ \E r \in Outcomes :
        LET res == srtp_cipher_set_iv(c, nonce[4], "srtp_direction_encrypt", r)
        IN  /\ c' = res.c
            /\ status' = res.status
            /\ calls' = Append(calls, Entry("set_iv", nonce, DirCode("srtp_direction_encrypt"), res.status))
            /\ IF res.status # "ok"
               THEN GiveUp("set_iv")
               ELSE pc' = "b_aad" /\ UNCHANGED <<enc_buf, nFree, failed, result>>
    /\ UNCHANGED <<ct, dispVars, octets_in_buffer, num_trials, i, nonce, b_len, b_tag_len, timer, testVars>>

\* mutant: set_aad is called whether or not the cipher has it
B_SetAad_unconditional ==
    /\ pc = "b_aad"
    /\ IF TRUE
       THEN \E r \in Outcomes :
            LET res == srtp_cipher_set_aad(c, 0, r)
            IN  /\ c' = res.c
                /\ status' = res.status
                /\ calls' = Append(calls, Entry("set_aad", 0, 4, res.status))
                /\ IF res.status # "ok"
                   THEN GiveUp("set_aad")
                   ELSE pc' = "b_enc" /\ UNCHANGED <<enc_buf, nFree, failed, result>>
       ELSE /\ pc' = "b_enc"
            /\ UNCHANGED <<c, status, calls, enc_buf, nFree, failed, result>>
    /\ UNCHANGED <<ct, dispVars, octets_in_buffer, num_trials, i, nonce, b_len, b_tag_len, timer, testVars>>

\* if (c->type->set_aad) srtp_cipher_set_aad(c, aad, aad_len), aad all zero
B_SetAad ==
    /\ pc = "b_aad"
    /\ IF c.type.set_aad
       THEN \E r \in Outcomes :
            LET res == srtp_cipher_set_aad(c, 0, r)
            IN  /\ c' = res.c
                /\ status' = res.status
                /\ calls' = Append(calls, Entry("set_aad", 0, 4, res.status))
                /\ IF res.status # "ok"
                   THEN GiveUp("set_aad")
                   ELSE pc' = "b_enc" /\ UNCHANGED <<enc_buf, nFree, failed, result>>
       ELSE /\ pc' = "b_enc"
            /\ UNCHANGED <<c, status, calls, enc_buf, nFree, failed, result>>
    /\ UNCHANGED <<ct, dispVars, octets_in_buffer, num_trials, i, nonce, b_len, b_tag_len, timer, testVars>>

\* srtp_cipher_encrypt(c, enc_buf, len, enc_buf, &len)
B_Encrypt ==
    /\ pc = "b_enc"
    /\ \E r \in DataOutcomes :
        LET res == srtp_cipher_encrypt(c, SubSeq(dbuf, 1, b_len), b_len, r)
        IN  /\ c' = res.c
            /\ status' = res.status
            /\ calls' = Append(calls, Entry("encrypt", b_len, 0, res.status))
            /\ dbuf' = res.out \o SubSeq(dbuf, Len(res.out) + 1, Len(dbuf))
            /\ b_len' = res.len
            /\ IF res.status # "ok"
               THEN GiveUp("encrypt")
               ELSE pc' = "b_tag" /\ UNCHANGED <<enc_buf, nFree, failed, result>>
    /\ UNCHANGED <<ct, op, fwd, alloc_key_len, alloc_tag_len, key_length, dlen, octets_in_buffer, num_trials, i, nonce, b_tag_len, timer, testVars>>

\* if (c->type->get_tag) srtp_cipher_get_tag(c, enc_buf + len, &tag_len);
\* then the loop's step: i++, nonce.v32[3] = (uint32_t)i
B_GetTag ==
    /\ pc = "b_tag"
    /\ IF c.type.get_tag
       THEN \E r \in Outcomes :
            LET res == srtp_cipher_get_tag(c, b_tag_len, r)
            IN  /\ c' = res.c
                /\ status' = res.status
                /\ calls' = Append(calls, Entry("get_tag", b_len, 0, res.status))
                /\ dbuf' = SubSeq(dbuf, 1, b_len) \o res.out \o SubSeq(dbuf, b_len + Len(res.out) + 1, Len(dbuf))
                /\ b_tag_len' = res.len
                /\ IF res.status # "ok"
                   THEN GiveUp("get_tag") /\ UNCHANGED <<i, nonce>>
                   ELSE /\ i' = i + 1
                        /\ nonce' = [nonce EXCEPT ![4] = i + 1]
                        /\ pc' = "b_loop"
                        /\ UNCHANGED <<enc_buf, nFree, failed, result>>
       ELSE /\ i' = i + 1
            /\ nonce' = [nonce EXCEPT ![4] = i + 1]
            /\ pc' = "b_loop"
            /\ UNCHANGED <<c, status, calls, dbuf, b_tag_len, enc_buf, nFree, failed, result>>
    /\ UNCHANGED <<ct, op, fwd, alloc_key_len, alloc_tag_len, key_length, dlen, octets_in_buffer, num_trials, b_len, timer, testVars>>

\* mutant: an elapsed time of no tick is taken for one tick
B_Finish_no_tick_as_one ==
    /\ pc = "b_loop"
    /\ i >= num_trials
    /\ \E t \in Ticks :
        /\ timer' = t
        /\ result' = (Quotient(CLOCKS_PER_SEC * num_trials * 8 * octets_in_buffer, IF t = 0 THEN 1 ELSE t))
    /\ enc_buf' = "freed"
    /\ nFree' = nFree + 1
    /\ pc' = "done"
    /\ UNCHANGED <<ct, c, status, calls, dispVars, octets_in_buffer, num_trials, i, nonce, b_len, b_tag_len, failed, testVars>>

\* i >= num_trials: timer = clock() - timer; srtp_crypto_free(enc_buf);
\* timer == 0: return 0; else return
\* (uint64_t)CLOCKS_PER_SEC * num_trials * 8 * octets_in_buffer / timer
B_Finish ==
    /\ pc = "b_loop"
    /\ i >= num_trials
    /\ \E t \in Ticks :
        /\ timer' = t
        /\ result' = (IF t = 0 THEN 0 ELSE Quotient(CLOCKS_PER_SEC * num_trials * 8 * octets_in_buffer, t))
    /\ enc_buf' = "freed"
    /\ nFree' = nFree + 1
    /\ pc' = "done"
    /\ UNCHANGED <<ct, c, status, calls, dispVars, octets_in_buffer, num_trials, i, nonce, b_len, b_tag_len, failed, testVars>>

NextBench == \/ B_Alloc \/ B_SetIv \/ B_SetAad \/ B_Encrypt \/ B_GetTag \/ B_Finish

SpecBench == InitBench /\ [][NextBench]_vars

---------------------------------------------------------------------------
(* srtp_cipher_bits_per_second at the full width of its counters.  size_t  *)
(* and uint64_t are 64 bits wide and nonce.v32[3] is 32 bits wide; the     *)
(* values below are written in base 256, least significant octet first,    *)
(* and the cipher's operations all succeed.  The variables are those of    *)
(* the benchmark; i, num_trials, octets_in_buffer, nonce[4] and result     *)
(* hold base-256 numbers here.                                             *)

\* n < 2^31 as k octets
RECURSIVE ToLimbs(_, _)
ToLimbs(n, k) == IF k = 0 THEN <<>> ELSE <<n % 256>> \o ToLimbs(n \div 256, k - 1)

\* the low n octets of x: the conversion to an n-octet unsigned type
Trunc(x, n) == [m \in 1..n |-> IF m <= Len(x) THEN x[m] ELSE 0]

RECURSIVE AddC(_, _, _)
AddC(a, b, cy) ==
    IF a = <<>> /\ b = <<>>
    THEN (IF cy = 0 THEN <<>> ELSE <<cy>>)
    ELSE LET t == (IF a = <<>> THEN 0 ELSE Head(a)) + (IF b = <<>> THEN 0 ELSE Head(b)) + cy
         IN  <<t % 256>> \o AddC(IF a = <<>> THEN <<>> ELSE Tail(a), IF b = <<>> THEN <<>> ELSE Tail(b), t \div 256)

RECURSIVE MulDigit(_, _, _)
MulDigit(a, d, cy) ==
    IF a = <<>>
    THEN (IF cy = 0 THEN <<>> ELSE <<cy>>)
    ELSE LET t == Head(a) * d + cy
         IN  <<t % 256>> \o MulDigit(Tail(a), d, t \div 256)

\* the product of two numbers, at whatever width it takes
RECURSIVE MulLimbs(_, _)
MulLimbs(a, b) == IF b = <<>> THEN <<>> ELSE AddC(MulDigit(a, Head(b), 0), <<0>> \o MulLimbs(a, Tail(b)), 0)

\* uint64_t * uint64_t
Mul64(a, b) == Trunc(MulLimbs(a, b), 8)

\* quotient and remainder of x by d, 0 < d < 2^23
RECURSIVE DivRem(_, _)
DivRem(x, d) ==
    IF x = <<>>
    THEN [q |-> <<>>, r |-> 0]
    ELSE LET hi == DivRem(Tail(x), d)
             cur == hi.r * 256 + Head(x)
         IN  [q |-> <<cur \div d>> \o hi.q, r |-> cur % d]

\* a < b, both of n octets
RECURSIVE LessFrom(_, _, _)
LessFrom(a, b, n) == IF n = 0 THEN FALSE ELSE IF a[n] # b[n] THEN a[n] < b[n] ELSE LessFrom(a, b, n - 1)

\* i < num_trials
Less64(a, b) == LessFrom(a, b, 8)

\* i++
Inc64(x) == Trunc(AddC(x, <<1>>, 0), 8)

\* (uint32_t)i
Low32(x) == Trunc(x, 4)

\* (uint64_t)CLOCKS_PER_SEC * num_trials * 8 * octets_in_buffer
Product64(trials, octets) == Mul64(Mul64(Mul64(ToLimbs(CLOCKS_PER_SEC, 8), trials), ToLimbs(8, 8)), octets)

\* ... / timer
Quotient64(product, ticks) == Trunc(DivRem(product, ticks).q, 8)

\* trial counts, each with a position of the loop the run passes through:
\* 0; 3 from the start; 2^22 and 2^32 + 2 near their ends
WideRuns == {
    [num_trials |-> ToLimbs(0, 8), i |-> ToLimbs(0, 8)],
    [num_trials |-> ToLimbs(3, 8), i |-> ToLimbs(0, 8)],
    [num_trials |-> ToLimbs(4194304, 8), i |-> ToLimbs(4194302, 8)],
    [num_trials |-> <<2, 0, 0, 0, 1, 0, 0, 0>>, i |-> <<254, 255, 255, 255, 0, 0, 0, 0>>]}

\* payload sizes: 0, 5, 1500, 2^16, 2^20
WideOctets == {ToLimbs(0, 8), ToLimbs(5, 8), ToLimbs(1500, 8), ToLimbs(65536, 8), ToLimbs(1048576, 8)}

\* elapsed ticks
WideTicks == {0, 1, 7, 1000}

InitWide ==
    /\ pc = "w_loop"
    /\ ct \in {t \in CipherTypes : t.alloc /\ ~t.set_aad /\ ~t.get_tag}
    /\ c = srtp_cipher_init(Concrete_alloc(ct, 16, 8, 1), 5, "ok").c
    /\ status = "none"
    /\ calls = <<>>
    /\ octets_in_buffer \in WideOctets
    /\ \E run \in WideRuns : num_trials = run.num_trials /\ i = run.i
    /\ nonce = <<0, 0, 0, Low32(i)>>
    /\ b_len = 0
    /\ b_tag_len = SRTP_MAX_TAG_LEN
    /\ enc_buf = "live"
    /\ nFree = 0
    /\ timer = 0
    /\ failed = "none"
    /\ result = Uninit
    /\ DispIdle
    /\ TestIdle

\* i < num_trials: a trial whose operations all succeed, then the loop's
\* step: i++, nonce.v32[3] = (uint32_t)i
W_Trial ==
    /\ pc = "w_loop"
    /\ Less64(i, num_trials)
    /\ i' = Inc64(i)
    /\ nonce' = [nonce EXCEPT ![4] = Low32(Inc64(i))]
    /\ UNCHANGED <<pc, ct, c, status, calls, dispVars, octets_in_buffer, num_trials, b_len, b_tag_len, enc_buf, nFree, timer, failed, result, testVars>>

\* i >= num_trials: timer = clock() - timer; srtp_crypto_free(enc_buf);
\* timer == 0: return 0; else return the quotient
W_Finish ==
    /\ pc = "w_loop"
    /\ ~Less64(i, num_trials)
    /\ \E t \in WideTicks :
        /\ timer' = t
        /\ result' = (IF t = 0 THEN ToLimbs(0, 8) ELSE Quotient64(Product64(num_trials, octets_in_buffer), t))
    /\ enc_buf' = "freed"
    /\ nFree' = nFree + 1
    /\ pc' = "done"
    /\ UNCHANGED <<ct, c, status, calls, dispVars, octets_in_buffer, num_trials, i, nonce, b_len, b_tag_len, failed, testVars>>

NextWide == W_Trial \/ W_Finish

SpecWide == InitWide /\ [][NextWide]_vars

---------------------------------------------------------------------------
(* Claims about the dispatch layer (SpecDispatch) *)

ForwardingOps == {"alloc", "dealloc", "init", "set_iv", "set_aad", "encrypt", "decrypt", "get_tag", "output"}

\* the instance, or the contract it points to, is missing for operation o
MissingFor(o) == IF o = "alloc" THEN IsNull(ct) \/ ~ct.alloc ELSE IsNull(c) \/ IsNull(c.type)

(* C2: every dispatch operation that forwards to the concrete cipher       *)
(* returns bad-parameter, and invokes no contract method, when the         *)
(* instance or its contract is missing.  (srtp_cipher_output breaks it.)   *)
C2_MissingIsBadParam == [][(op' \in ForwardingOps /\ MissingFor(op')) => (pc' # "crashed" /\ status' = "bad_param" /\ fwd' = <<>>)]_vars

HasCapability(t, o) == IF o = "set_aad" THEN t.set_aad ELSE t.get_tag

(* C3: set_associated_data or get_tag on a valid instance whose cipher     *)
(* lacks the capability returns no-such-operation, invokes no contract     *)
(* method and leaves the instance unchanged, so that a following           *)
(* set_iv / encrypt / decrypt does what it would have done without it.     *)
C3_CapabilityGating ==
    [][(op' \in {"set_aad", "get_tag"} /\ ~Invalid(c) /\ ~HasCapability(c.type, op'))
        => /\ status' = "no_such_op"
           /\ fwd' = <<>>
           /\ c' = c
           /\ \A src \in Sources, r \in DataOutcomes :
                /\ srtp_cipher_encrypt(c', src, Len(src), r) = srtp_cipher_encrypt(c, src, Len(src), r)
                /\ srtp_cipher_decrypt(c', src, Len(src), r) = srtp_cipher_decrypt(c, src, Len(src), r)
           /\ \A v \in IVs, d \in Directions : srtp_cipher_set_iv(c', v, d, "ok") = srtp_cipher_set_iv(c, v, d, "ok")]_vars

\* a keyed instance with an IV set, asked for a tag its cipher cannot give
C3_Witness == /\ op = "get_tag" /\ status = "no_such_op" /\ ~Invalid(c) /\ ~c.type.get_tag /\ c.state.key = 9 /\ c.state.dir = "srtp_direction_encrypt"

(* C9: after any sequence of dispatch operations the instance's key length *)
(* and tag length are those fixed at allocation, and key_length(instance)  *)
(* returns that key length.                                                *)
C9_LengthsFixed == ~IsNull(c) => /\ c.key_len = alloc_key_len /\ c.tag_len = alloc_tag_len /\ (op = "get_key_length" => key_length = alloc_key_len)

\* allocated with a 30-octet key, re-keyed, used for encryption, then asked
C9_Witness == /\ op = "get_key_length" /\ key_length = 30 /\ ~Invalid(c) /\ c.state.key = 9 /\ c.state.acc # 0

---------------------------------------------------------------------------
(* Claims about srtp_cipher_type_test (SpecTest) *)

(* C1: whatever the list and whatever the cipher's operations return, each *)
(* instance the self-test allocates is passed to srtp_cipher_dealloc       *)
(* exactly once before it returns: none is live at return, none is         *)
(* deallocated twice.                                                      *)
C1_DeallocatedOnce ==
    /\ Len(deallocs) = nAlloc
    /\ \A n \in 1..Len(deallocs) : deallocs[n] <= 1
    /\ pc = "done" => \A n \in 1..Len(deallocs) : deallocs[n] = 1

\* a return from a failed randomized trial, after two vectors had passed
C1_Witness == /\ pc = "done" /\ nAlloc = 3 /\ j = 2 /\ ret = "cipher_fail" /\ deallocs = <<1, 1, 1>>

(* C4: with an empty (null) list the self-test returns cannot-verify and   *)
(* performs no allocation and no other cipher operation.                   *)
C4_EmptyList == (test_data = <<>> /\ pc \notin {"self_test", "start"}) => (pc = "done" /\ ret = "cant_check" /\ nAlloc = 0 /\ calls = <<>> /\ IsNull(c))

C4_Witness == test_data = <<>> /\ pc = "done" /\ ret = "cant_check"

\* the current vector's instance was allocated and initialized
Initialized == /\ test_case >= 1 /\ nAlloc = test_case /\ Len(calls) >= 2 /\ calls[1].status = "ok" /\ calls[2].op = "init" /\ calls[2].status = "ok"

Ops(lg) == [n \in 1..Len(lg) |-> lg[n].op]

(* C5: reaching a vector whose declared ciphertext length exceeds the      *)
(* 128-octet scratch capacity, with its instance allocated and             *)
(* initialized, the self-test returns bad-parameter, deallocates that      *)
(* instance, writes no octet of the vector into the scratch buffer and     *)
(* calls neither set_iv nor encrypt for it.                                *)
C5_CapacityGuard ==
    (Initialized /\ TC.ciphertext_length_octets > SELF_TEST_BUF_OCTETS /\ pc # "copy_plain")
        => /\ pc = "done"
           /\ ret = "bad_param"
           /\ deallocs[c.id] = 1
           /\ bufWrites = 0
           /\ Ops(calls) = <<"alloc", "init", "dealloc">>

\* the second vector of a list is the over-long one
C5_Witness == /\ Initialized /\ test_case = 2 /\ TC.ciphertext_length_octets = SELF_TEST_BUF_OCTETS + 1 /\ pc = "done" /\ ret = "bad_param"

\* a length of vector v exceeds the buffer it is copied or generated into
Exceeds(v) == \/ v.plaintext_length_octets > SELF_TEST_BUF_OCTETS \/ v.ciphertext_length_octets > SELF_TEST_BUF_OCTETS \/ v.key_length_octets > MAX_KEY_LEN

(* C6: whenever a vector's plaintext, ciphertext or key length exceeds the *)
(* capacity of the buffer it goes into, the self-test returns              *)
(* bad-parameter and never writes at an index at or beyond that capacity.  *)
(* (The code checks the ciphertext length only, and answers an over-long   *)
(* key with cannot-verify.)                                                *)
C6_RefusesOversized ==
    /\ oob = {}
    /\ (pc = "done" /\ test_case >= 1 /\ Exceeds(TC) /\ \A n \in 1..Len(calls) : calls[n].op # "dealloc" => calls[n].status = "ok") => ret = "bad_param"

(* C7: the self-test returns ok only if, for every vector, the encrypt     *)
(* output (with the appended tag for AEAD) equals the vector's ciphertext  *)
(* and the decrypt output equals its plaintext, in length and in every     *)
(* octet; a mismatch in any vector makes it return algorithm-failure.      *)
C7_KnownAnswerExact ==
    /\ (pc = "done" /\ ret = "ok") => \A n \in 1..Len(test_data) : encOut[n] = Vec(test_data[n]).ciphertext /\ decOut[n] = Vec(test_data[n]).plaintext
    /\ \A n \in 1..Len(test_data) :
        /\ (encOut[n] # <<Uninit>> /\ encOut[n] # Vec(test_data[n]).ciphertext) => (pc = "done" /\ ret = "algo_fail")
        /\ (decOut[n] # <<Uninit>> /\ decOut[n] # Vec(test_data[n]).plaintext) => (pc = "done" /\ ret = "algo_fail")

\* a stream-cipher vector and an AEAD vector both matched, then 128 trials
C7_Witness == /\ pc = "done" /\ ret = "ok" /\ test_data = <<"VecGood", "VecAead">> /\ IsGCM(ct.id) /\ j = NUM_RAND_TESTS

IsPrefix(s, t) == Len(s) <= Len(t) /\ \A n \in 1..Len(s) : s[n] = t[n]

\* what is compared of a call: the operation and its arguments
Shape(e) == <<e.op, IF e.op = "get_tag" THEN 0 ELSE e.a, e.b>>

\* the calls a passing vector v gets, g telling whether the instance is GCM
Expected(v, g) ==
    <<<<"alloc", v.key_length_octets, v.tag_length_octets>>, <<"init", v.key, 0>>, <<"set_iv", v.idx, 0>>>>
    \o (IF g THEN <<<<"set_aad", v.aad, v.aad_length_octets>>>> ELSE <<>>)
    \o <<<<"encrypt", v.plaintext_length_octets, 0>>>>
    \o (IF g THEN <<<<"get_tag", 0, 0>>>> ELSE <<>>)
    \o <<<<"init", v.key, 0>>, <<"set_iv", v.idx, 1>>>>
    \o (IF g THEN <<<<"set_aad", v.aad, v.aad_length_octets>>>> ELSE <<>>)
    \o <<<<"decrypt", v.ciphertext_length_octets, 0>>, <<"dealloc", 0, 0>>>>

(* C10: in the known-answer pass each vector is processed on a fresh       *)
(* instance in the order allocate, initialize(key), set_iv(IV, encrypt),   *)
(* set_associated_data (GCM only), encrypt, get_tag (GCM only),            *)
(* initialize(same key), set_iv(IV, decrypt), set_associated_data (GCM     *)
(* only), decrypt, deallocate; a failing step is followed by the           *)
(* deallocation only.  set_associated_data and get_tag are never called    *)
(* for a non-GCM algorithm.                                                *)
C10_CallOrder ==
    /\ \A n \in 1..Len(calls) : calls[n].op \in {"set_aad", "get_tag"} => IsGCM(c.algorithm)
    /\ (nAlloc >= 1 /\ nAlloc <= Len(test_data) /\ calls # <<>> /\ calls[1].status = "ok")
        => LET want == Expected(Vec(test_data[nAlloc]), IsGCM(c.algorithm))
               last == calls[Len(calls)]
               body == IF last.op = "dealloc" THEN SubSeq(calls, 1, Len(calls) - 1) ELSE calls
           IN  /\ c.id = nAlloc
               /\ IsPrefix([n \in 1..Len(body) |-> Shape(body[n])], SubSeq(want, 1, Len(want) - 1))
               /\ \A n \in 1..(Len(body) - 1) : body[n].status = "ok"
               /\ \A n \in 1..Len(body) : body[n].op # "dealloc"
               /\ pc \in {"alloc", "rand_alloc"} => /\ Len(calls) = Len(want) /\ \A n \in 1..Len(calls) : calls[n].status = "ok"

\* an AEAD vector went through all eleven calls
C10_Witness == /\ pc = "rand_alloc" /\ Len(test_data) = 1 /\ IsGCM(c.algorithm) /\ Ops(calls) = <<"alloc", "init", "set_iv", "set_aad", "encrypt", "get_tag", "init", "set_iv", "set_aad", "decrypt", "dealloc">>

---------------------------------------------------------------------------
(* Claims about srtp_cipher_bits_per_second (SpecBench) *)

BenchReturned == pc = "done" /\ result # Uninit

Product == CLOCKS_PER_SEC * num_trials * 8 * octets_in_buffer

(* C8, as stated: the benchmark returns 0 when the scratch allocation or   *)
(* any of set_iv, set_aad, encrypt, get_tag fails or when no tick elapsed, *)
(* and in every other case, whatever the payload size and the trial        *)
(* count, a strictly positive value.                                       *)
C8_PositiveOtherwise ==
    BenchReturned =>
        /\ (failed # "none" \/ timer = 0) => result = 0
        /\ (failed = "none" /\ timer # 0) => result > 0

(* C8, amended: the benchmark returns 0 when the scratch allocation or any *)
(* driven operation fails or when no tick elapsed; in every other case it  *)
(* returns the whole part of ticks-per-second x trials x 8 x payload       *)
(* divided by the elapsed ticks, which is strictly positive exactly when   *)
(* the trial count and the payload size are both non-zero and the elapsed  *)
(* ticks do not exceed that product.                                       *)
C8_SentinelOrQuotient ==
    BenchReturned =>
        /\ (failed # "none" \/ timer = 0) => result = 0
        /\ (failed = "none" /\ timer # 0) =>
            /\ i = num_trials
            /\ result * timer <= Product
            /\ Product < (result + 1) * timer
            /\ (result > 0 <=> (num_trials > 0 /\ octets_in_buffer > 0 /\ timer <= Product))

\* two trials of five octets on an AEAD cipher, all successful, in 7 ticks:
\* 1000000 * 2 * 8 * 5 / 7
C8_Witness ==
    /\ BenchReturned
    /\ failed = "none"
    /\ c.type.get_tag
    /\ c.type.set_aad
    /\ num_trials = 2
    /\ i = 2
    /\ octets_in_buffer = 5
    /\ timer = 7
    /\ result = 11428571
    /\ nFree = 1

(* C11: once a step of the self-test returns a status other than ok, or a  *)
(* comparison finds a mismatch, the only cipher operation still invoked is *)
(* the deallocation of the current instance; a vector is allocated only    *)
(* after every vector before it has passed both directions and been        *)
(* deallocated, and the randomized phase is entered only after every       *)
(* vector of the list has.                                                 *)
Passed(k) == /\ k <= Len(deallocs) /\ deallocs[k] = 1 /\ encOut[k] = Vec(test_data[k]).ciphertext /\ decOut[k] = Vec(test_data[k]).plaintext

InRandomPhase == pc = "rand_alloc" \/ nAlloc > Len(test_data)

C11_FirstErrorAborts ==
    /\ \A k \in 1..Len(calls) : calls[k].status # "ok" =>
          /\ pc = "done"
          /\ ret # "ok"
          /\ k = Len(calls) \/ (k = Len(calls) - 1 /\ calls[Len(calls)].op = "dealloc")
    /\ ret \notin {"none", "ok"} => (pc = "done" /\ nAlloc <= Len(test_data) + 1)
    /\ \A k \in 1..(nAlloc - 1) : k <= Len(test_data) => Passed(k)
    /\ pc = "alloc" => \A k \in 1..nAlloc : Passed(k)
    /\ InRandomPhase => \A k \in 1..Len(test_data) : Passed(k)

\* the first of two vectors fails its ciphertext comparison: its instance
\* is deallocated and the second vector is never allocated
C11_Witness == /\ pc = "done" /\ ret = "algo_fail" /\ Len(test_data) = 2 /\ test_case = 1 /\ nAlloc = 1 /\ deallocs = <<1>> /\ calls[Len(calls)].op = "dealloc" /\ decOut[1] = <<Uninit>>

\* the set_iv calls of the current randomized trial
TrialSetIv == IF nAlloc > Len(test_data) THEN {k \in 1..Len(calls) : calls[k].op = "set_iv"} ELSE {}

(* C12, as stated: in a randomized trial set_iv is given the IV drawn in   *)
(* that trial for the encrypt direction and the first vector's IV field    *)
(* for the decrypt direction.                                              *)
C12_DifferentIvSources ==
    \A k \in TrialSetIv : calls[k].a = (IF calls[k].b = DirCode("srtp_direction_encrypt") THEN iv ELSE Vec(test_data[1]).idx)

(* C12, amended: in a randomized trial set_iv is given the first vector's  *)
(* IV field for the encrypt direction and for the decrypt direction alike; *)
(* the IV drawn in the trial never reaches the cipher.                     *)
C12_SameIvSource ==
    /\ \A k \in TrialSetIv : calls[k].a = Vec(test_data[1]).idx
    /\ Cardinality(TrialSetIv) <= 2
    /\ \A k, m \in TrialSetIv : k < m => (calls[k].b = DirCode("srtp_direction_encrypt") /\ calls[m].b = DirCode("srtp_direction_decrypt"))
    /\ (nAlloc > Len(test_data) /\ ~IsNull(c)) => c.state.iv \in {Uninit, Vec(test_data[1]).idx}

\* a second trial has set up both directions; the IV it drew is another
\* value than the vector's
C12_Witness == /\ nAlloc > Len(test_data) /\ j = 1 /\ pc = "r_decrypt" /\ Cardinality(TrialSetIv) = 2 /\ iv # Vec(test_data[1]).idx /\ c.state.iv = Vec(test_data[1]).idx /\ c.state.dir = "srtp_direction_decrypt"

\* the instances allocated and not yet handed to srtp_cipher_dealloc
Live == {k \in 1..Len(deallocs) : deallocs[k] = 0}

(* C13: the randomized phase allocates one instance, with the first        *)
(* vector's key length and tag length, uses it in every trial and          *)
(* deallocates it once after the last; a self-test of n vectors that       *)
(* returns ok has made n + 1 allocations and n + 1 deallocations and run   *)
(* 128 randomized trials; never are two instances live together.           *)
C13_OneRandomInstance ==
    /\ Cardinality(Live) <= 1
    /\ nAlloc <= Len(test_data) + 1
    /\ Len(deallocs) = nAlloc
    /\ j <= NUM_RAND_TESTS
    /\ nAlloc > Len(test_data) =>
          /\ c.id = nAlloc
          /\ c.key_len = Vec(test_data[1]).key_length_octets
          /\ c.tag_len = Vec(test_data[1]).tag_length_octets
          /\ deallocs[nAlloc] = (IF pc = "done" THEN 1 ELSE 0)
          /\ (pc # "done" /\ j > 0) => Live = {nAlloc}
    /\ (pc = "done" /\ ret = "ok") =>
          /\ test_data # <<>>
          /\ nAlloc = Len(test_data) + 1
          /\ deallocs = [k \in 1..nAlloc |-> 1]
          /\ j = NUM_RAND_TESTS

\* two vectors of different tag lengths, three instances, 128 trials, ok
C13_Witness == /\ pc = "done" /\ ret = "ok" /\ test_data = <<"VecAead", "VecGood">> /\ nAlloc = 3 /\ deallocs = <<1, 1, 1>> /\ j = NUM_RAND_TESTS /\ c.tag_len = 8

\* octets of a random word that sit on the edges of the modulus
EdgeOctets == {0, 63, 64, 255}

\* a trial has drawn its plaintext length
Drawn == nAlloc > Len(test_data) /\ pc \notin {"rand_alloc", "r_draw", "done"} /\ plaintext_len # Uninit

(* C14: whatever 32-bit word the test random source gives, a randomized    *)
(* trial's plaintext length lies in 0..63, and the plaintext, the          *)
(* ciphertext and a tag of at most SRTP_MAX_TAG_LEN octets appended to it  *)
(* are written at scratch indices below 128 only.                          *)
C14_TrialWithinScratch ==
    /\ (pc = "r_draw" /\ j = 0) => \A o \in [1..4 -> EdgeOctets] : U32Mod(o, SELF_TEST_BUF_OCTETS - 64) \in 0..(SELF_TEST_BUF_OCTETS - 64 - 1)
    /\ nAlloc > Len(test_data) => (oob = {} /\ pc # "crashed")
    /\ Drawn =>
          /\ plaintext_len \in 0..63
          /\ bufWrites <= 3 * (plaintext_len + SRTP_MAX_TAG_LEN)
          /\ pc \in {"r_get_tag", "r_init_dec", "r_set_iv_dec", "r_set_aad_dec", "r_decrypt"} =>
                (len <= plaintext_len + SRTP_MAX_TAG_LEN /\ len + SRTP_MAX_TAG_LEN <= SELF_TEST_BUF_OCTETS)

\* the longest plaintext, 63 octets, encrypted and followed by its tag
C14_Witness == /\ Drawn /\ pc = "r_init_dec" /\ IsGCM(c.algorithm) /\ plaintext_len = 63 /\ len = 63 + c.tag_len /\ c.tag_len = 8 /\ oob = {}

\* the decrypted output differs from the retained copy of the plaintext
TrialDiffers == len # plaintext_len \/ \E k \in 0..(plaintext_len - 1) : buffer[k] # buffer2[k]

(* C15: the copy of a trial's plaintext is made when the plaintext is      *)
(* drawn and is not touched afterwards; when the decrypted length differs  *)
(* from the plaintext length, or a decrypted octet below that length       *)
(* differs from the copy, the self-test deallocates the instance and       *)
(* returns algorithm-failure without another trial; otherwise the trial    *)
(* passes and the next one starts (or, after the last, the deallocation).  *)
C15_TrialComparison ==
    [][/\ pc # "r_draw" => buffer2' = buffer2
       /\ (pc = "r_draw" /\ pc' = "r_init_enc") => \A k \in 0..(plaintext_len' - 1) : buffer2'[k] = buffer'[k]
       /\ pc = "r_compare" =>
             IF TrialDiffers
             THEN /\ pc' = "done"
                  /\ ret' = "algo_fail"
                  /\ deallocs' = [deallocs EXCEPT ![c.id] = @ + 1]
                  /\ calls'[Len(calls')].op = "dealloc"
                  /\ j' = j
             ELSE /\ pc' = (IF j + 1 < NUM_RAND_TESTS THEN "r_draw" ELSE "r_dealloc")
                  /\ ret' = ret
                  /\ deallocs' = deallocs
                  /\ calls' = calls
                  /\ j' = j + 1]_vars

\* the second trial decrypts to the right length with a wrong first octet
C15_Witness == /\ pc = "done" /\ ret = "algo_fail" /\ nAlloc > Len(test_data) /\ j = 1 /\ plaintext_len = 63 /\ len = plaintext_len /\ buffer[0] # buffer2[0] /\ deallocs[nAlloc] = 1 /\ calls[Len(calls) - 1].op = "decrypt" /\ calls[Len(calls) - 1].status = "ok"

(* C17, as stated: in every benchmark trial encrypt is given the caller's  *)
(* payload size as its source length, and the tag is written at offset     *)
(* payload size of the scratch buffer, whatever lengths the cipher         *)
(* reported in earlier calls.                                              *)
C17_PayloadSizeEveryTrial ==
    \A k \in 1..Len(calls) : calls[k].op \in {"encrypt", "get_tag"} => calls[k].a = octets_in_buffer

\* the operations of one benchmark trial on a cipher of type t
TrialOps(t) == <<"set_iv">> \o (IF t.set_aad THEN <<"set_aad">> ELSE <<>>) \o <<"encrypt">> \o (IF t.get_tag THEN <<"get_tag">> ELSE <<>>)

(* C18: a benchmark trial calls set_aad exactly when the cipher has that   *)
(* method and get_tag exactly when it has that one, so no call returns     *)
(* no-such-operation; with neither, a trial is set_iv followed by encrypt. *)
C18_OptionalOpsByCapability ==
    pc \in {"bench", "b_loop", "b_aad", "b_enc", "b_tag", "done"} =>
        /\ \A k \in 1..Len(calls) :
              /\ calls[k].op = TrialOps(c.type)[((k - 1) % Len(TrialOps(c.type))) + 1]
              /\ calls[k].status # "no_such_op"
        /\ status # "no_such_op"
        /\ (pc = "done" /\ failed = "none") => Len(calls) = num_trials * Len(TrialOps(c.type))
        /\ (pc = "done" /\ failed \notin {"none", "alloc"}) => (calls[Len(calls)].op = failed /\ calls[Len(calls)].status # "ok")

\* two trials on a cipher with neither method: set_iv, encrypt, twice
C18_Witness == /\ pc = "done" /\ failed = "none" /\ ~c.type.set_aad /\ ~c.type.get_tag /\ num_trials = 2 /\ Len(calls) = 4 /\ calls[3].op = "set_iv" /\ calls[4].op = "encrypt" /\ result # Uninit

(* C20: a benchmark of 0 trials invokes no cipher operation and returns 0  *)
(* whatever time elapsed; a benchmark that measures no elapsed tick        *)
(* returns 0 whatever its trial count.                                     *)
C20_ZeroTrialsOrTicks ==
    /\ (pc \in {"bench", "b_loop", "b_aad", "b_enc", "b_tag", "done"} /\ num_trials = 0) => (calls = <<>> /\ pc \notin {"b_aad", "b_enc", "b_tag"})
    /\ BenchReturned =>
          /\ num_trials = 0 => result = 0
          /\ timer = 0 => result = 0

\* no trial was asked for, seven ticks elapsed, and the result is 0
C20_Witness == /\ BenchReturned /\ failed = "none" /\ num_trials = 0 /\ octets_in_buffer = 5 /\ timer = 7 /\ result = 0 /\ calls = <<>> /\ nFree = 1

---------------------------------------------------------------------------
(* Claims about the benchmark's counters at full width (SpecWide) *)

\* x and y are the same number
SameNumber(x, y) == Trunc(x, 24) = Trunc(y, 24) /\ Len(x) <= 24 /\ Len(y) <= 24

\* ticks-per-second * trials * 8 * payload size, as a number
ExactProduct == MulLimbs(MulLimbs(MulLimbs(ToLimbs(CLOCKS_PER_SEC, 3), num_trials), <<8>>), octets_in_buffer)

(* C16, as stated: trial i of the benchmark gives set_iv a nonce whose     *)
(* last 32-bit word is i and whose other words are 0, so that the trials   *)
(* of a run have different nonces whatever the trial count.                *)
C16_NonceIsTrialIndex ==
    (pc = "w_loop" /\ Less64(i, num_trials)) => (nonce[1] = 0 /\ nonce[2] = 0 /\ nonce[3] = 0 /\ SameNumber(nonce[4], i))

(* C19, as stated: when every operation succeeded and ticks elapsed, the   *)
(* benchmark returns the whole part of ticks-per-second * trials * 8 *     *)
(* payload size divided by the elapsed ticks, the product not wrapping at  *)
(* 64 bits, whatever the payload size and the trial count.                 *)
C19_ExactQuotient ==
    (pc = "done" /\ failed = "none" /\ timer # 0) =>
        /\ SameNumber(ExactProduct, Product64(num_trials, octets_in_buffer))
        /\ SameNumber(result, DivRem(ExactProduct, timer).q)

---------------------------------------------------------------------------
(* Further claims about the dispatch layer (SpecDispatch) *)

\* n octets of zero
Zeros(n) == [k \in 1..n |-> 0]

(* C21: on an instance that has its type and its state, keystream output   *)
(* of n octets invokes the cipher's encrypt once and leaves the status,    *)
(* the buffer, the reported length and the instance that encrypt leaves    *)
(* when it is called on that instance with n octets of zero, in place.     *)
C21_OutputIsEncryptOfZeros ==
    [][(op' = "output" /\ ~Invalid(c)) =>
          /\ fwd' = <<"encrypt">>
          /\ \E n \in {0, 2}, r \in DataOutcomes :
                LET e == srtp_cipher_encrypt(c, Zeros(n), n, r)
                IN  /\ status' = e.status
                    /\ c' = e.c
                    /\ dlen' = e.len
                    /\ dbuf' = (IF e.status = "ok" THEN e.out ELSE Zeros(n))
                    /\ (e.status = "ok" /\ r = "ok") => dbuf' = [k \in 1..n |-> Ks(c.state.key, c.state.iv, k)]]_vars

\* two octets of keystream from an instance keyed with 9 and IV 1
C21_Witness == /\ op = "output" /\ status = "ok" /\ ~Invalid(c) /\ c.state.key = 9 /\ c.state.iv = 1 /\ dlen = 2 /\ dbuf = <<Ks(9, 1, 1), Ks(9, 1, 2)>> /\ fwd = <<"encrypt">>

---------------------------------------------------------------------------
(* Further claims about srtp_cipher_type_test (SpecTest) *)

\* the calls of the current vector or trial, other than deallocations,
\* that returned a status other than ok
FailedSteps == {k \in 1..Len(calls) : calls[k].op # "dealloc" /\ calls[k].status # "ok"}

(* C22: when allocate, initialize, set_iv, set_aad, encrypt, get_tag or    *)
(* decrypt returns a status other than ok, the self-test returns that      *)
(* status, whatever the clean-up deallocation returns; a deallocation's    *)
(* status is returned only when the deallocation that ends a passing       *)
(* vector, or the passing randomized phase, fails.  A cipher identified as *)
(* AES-GCM that has no set_aad or no get_tag gets no-such-operation from   *)
(* that call, and so from the self-test.                                   *)
C22_StepStatusReturned ==
    /\ \A k \in FailedSteps : (pc = "done" /\ ret = calls[k].status)
    /\ (pc = "done" /\ ret = FailStatus("dealloc")) =>
          /\ FailedSteps = {}
          /\ calls[Len(calls)].op = "dealloc"
          /\ calls[Len(calls)].status = ret
          /\ \A k \in 1..(Len(calls) - 1) : calls[k].status = "ok"
          /\ IF nAlloc > Len(test_data) THEN j = NUM_RAND_TESTS ELSE (encOut[test_case] = TC.ciphertext /\ decOut[test_case] = TC.plaintext)
    /\ \A k \in 1..Len(calls) : (calls[k].op \in {"set_aad", "get_tag"} /\ ~HasCapability(ct, calls[k].op)) => (calls[k].status = "no_such_op" /\ ret = "no_such_op")
    /\ (pc = "done" /\ IsGCM(ct.id) /\ ~(ct.set_aad /\ ct.get_tag)) => ret # "ok"

\* an AES-GCM type without get_tag: the first vector's get_tag call gives
\* no-such-operation, the clean-up deallocation fails, and the self-test
\* returns no-such-operation
C22_Witness == /\ pc = "done" /\ ret = "no_such_op" /\ IsGCM(ct.id) /\ ct.set_aad /\ ~ct.get_tag /\ Len(calls) >= 2 /\ calls[Len(calls) - 1].op = "get_tag" /\ calls[Len(calls)].op = "dealloc" /\ calls[Len(calls)].status = FailStatus("dealloc")

---------------------------------------------------------------------------
(* Further claims about srtp_cipher_bits_per_second (SpecBench) *)

\* the operations the benchmark may call on the caller's instance
BenchOps == {"set_iv", "set_aad", "encrypt", "get_tag"}

(* C23: whichever way the benchmark returns (all trials done, an operation *)
(* failing in some trial, no tick elapsed), the buffer it allocated has    *)
(* been freed exactly once, and not at all before the return or when the   *)
(* allocation failed; it never calls init or dealloc on the caller's       *)
(* instance, which keeps its type, its state and its key throughout.       *)
C23_BufferFreedInstanceKept ==
    /\ nFree = (IF pc = "done" /\ failed # "alloc" THEN 1 ELSE 0)
    /\ enc_buf = (IF pc = "bench" \/ failed = "alloc" THEN "none" ELSE IF pc = "done" THEN "freed" ELSE "live")
    /\ \A k \in 1..Len(calls) : calls[k].op \in BenchOps
    /\ ~Invalid(c)
    /\ c.type = ct /\ c.key_len = 16 /\ c.tag_len = 8
    /\ c.state.key = 5

\* the second trial's get_tag fails: the buffer is freed once and the
\* instance is still allocated and keyed
C23_Witness == /\ pc = "done" /\ failed = "get_tag" /\ i = 1 /\ num_trials = 2 /\ result = 0 /\ nFree = 1 /\ enc_buf = "freed" /\ ~Invalid(c) /\ c.state.key = 5 /\ calls[Len(calls)].op = "get_tag" /\ calls[Len(calls)].status # "ok"

=============================================================================
